---------------------------- MODULE Spec2Model ----------------------------
(***************************************************************************)
(* State-machine model of the iteration engine of Uno: the trust-region    *)
(* mechanism, the l1-relaxation and feasibility-restoration strategies and *)
(* the inertia correction of the Hessian model.                            *)
(*                                                                         *)
(* Real numbers are exact rationals <<numerator, denominator>> with a      *)
(* positive denominator, kept in lowest terms.                             *)
(***************************************************************************)
EXTENDS Integers, Sequences, FiniteSets, TLC

(***************************************************************************)
(* Bounds of the model                                                     *)
(***************************************************************************)
\* number of trust-region loop iterations explored, over all calls
MaxIterations == 4
\* largest linearized residual, violation and model objective returned by a solve
MaxResidual == 2
\* largest component of an objective gradient
MaxGradient == 1
\* number of calls of update_objective_multiplier after generate
MaxUpdates == 3
\* number of constraints of the problem
MaxConstraints == 2
\* number of calls of the line search
MaxLineSearches == 2

(***************************************************************************)
(* Exact rational arithmetic                                               *)
(***************************************************************************)
RECURSIVE GCD(_, _)
GCD(a, b) == IF b = 0 THEN a ELSE GCD(b, a % b)

Abs(a) == IF a < 0 THEN -a ELSE a

Rat(n, d) ==
    LET g == GCD(Abs(n), Abs(d))
        s == IF d < 0 THEN -1 ELSE 1
    IN  IF n = 0 THEN <<0, 1>> ELSE <<s * (n \div g), s * (d \div g)>>

Zero == <<0, 1>>
One == <<1, 1>>

RLess(a, b) == a[1] * b[2] < b[1] * a[2]
RLeq(a, b) == a[1] * b[2] <= b[1] * a[2]
RMul(a, b) == Rat(a[1] * b[1], a[2] * b[2])
RDiv(a, b) == Rat(a[1] * b[2], a[2] * b[1])
RSub(a, b) == Rat(a[1] * b[2] - b[1] * a[2], a[2] * b[2])
RAdd(a, b) == Rat(a[1] * b[2] + b[1] * a[2], a[2] * b[2])
RNeg(a) == <<-a[1], a[2]>>
RAbs(a) == <<Abs(a[1]), a[2]>>
RMin(a, b) == IF RLess(b, a) THEN b ELSE a
RMax(a, b) == IF RLess(a, b) THEN b ELSE a


(***************************************************************************)
(* Options (positive reals read from the option file) and problem data     *)
(***************************************************************************)
\* TR_radius
InitialRadii == {<<4, 1>>}
\* TR_increase_factor
IncreaseFactors == {<<2, 1>>, <<1, 2>>}
\* TR_decrease_factor
DecreaseFactors == {<<2, 1>>, <<3, 2>>, <<1, 2>>}
\* TR_min_radius
MinRadii == {One}
\* TR_activity_tolerance
ActivityTolerances == {<<1, 4>>}
\* infinity norm of a direction, as a fraction of the trust-region radius
NormFractions == {Zero, <<1, 2>>, One}
\* problem.objective_sign: +1 for minimization, -1 for maximization
ObjectiveSigns == {One, <<-1, 1>>}
\* l1_relaxation_initial_parameter
InitialPenalties == {One, <<1, 2>>, Zero}
\* l1_relaxation_decrease_factor
l1_decrease_factor == <<2, 1>>
\* l1_relaxation_epsilon1, l1_relaxation_epsilon2
epsilon1 == <<1, 10>>
epsilon2 == <<1, 10>>
\* l1_relaxation_penalty_threshold
penalty_threshold == <<1, 8>>

VARIABLES
    \* TrustRegionStrategy
    options,            \* increase_factor, decrease_factor, activity_tolerance, min_radius
    radius,             \* this->radius
    number_iterations,  \* this->number_iterations
    tr_pc,              \* position inside compute_acceptable_iterate ("none": no mechanism)
    tr_calls,           \* calls of compute_acceptable_iterate made so far
    iteration_id,       \* number of the current loop iteration (over all calls)
    tr_log,             \* components invoked in the current loop iteration, in order
    registered,         \* iterates passed to register_accepted_iterate in the current call
    outcome,            \* how the last call ended
    direction,          \* the Direction local of the loop body
    trial_iterate,      \* the trial iterate local of the loop body
    \* ConstraintRelaxationStrategy
    relaxation,         \* "l1" or "FR"
    rs_pc,              \* position inside compute_feasible_direction
    elastics_on_subproblem, \* the subproblem carries the elastic variables
    subproblem_radius,  \* trust-region radius the subproblem was built with
    \* l1Relaxation
    penalty_parameter,  \* this->penalty_parameter
    steering,           \* locals of solve_with_steering_rule
    penalty_history,    \* values assigned to penalty_parameter in the current call
    strategy_resets,    \* calls of globalization_strategy->reset() in the current call
    \* FeasibilityRestoration
    objective_sign,     \* problem.objective_sign
    current_phase,      \* this->current_phase
    phase_log,          \* what the last is_acceptable did
    current_iterate     \* the current iterate handed to the strategies


tr_vars == <<options, radius, number_iterations, tr_pc, tr_calls, iteration_id, tr_log,
             registered, outcome, trial_iterate>>
l1_vars == <<penalty_parameter, steering, penalty_history, strategy_resets>>
fr_vars == <<objective_sign, current_phase, phase_log, current_iterate>>

VARIABLES
    \* HessianModel::modify_inertia
    hm_pc,              \* position inside modify_inertia
    matrix,             \* the coordinate-form matrix: entries <<row, column, value>>
    inertia,            \* the local inertia: the total diagonal shift
    previous_inertia,   \* the local previous_inertia
    \* LinearSolver
    symbolic_nnz,       \* number of nonzeros recorded by do_symbolic_factorization
    factorization,      \* what the last numerical factorization reports
    factorizations,     \* number of numerical factorizations performed
    nnz_matched,        \* every numerical factorization saw the recorded number of nonzeros
    assertions          \* the build keeps the assertions

hm_vars == <<hm_pc, matrix, inertia, previous_inertia, symbolic_nnz, factorization,
             factorizations, nnz_matched, assertions>>

engine_vars == <<options, radius, number_iterations, tr_pc, tr_calls, iteration_id, tr_log,
                 registered, outcome, direction, trial_iterate, relaxation, rs_pc,
                 elastics_on_subproblem, subproblem_radius, penalty_parameter, steering,
                 penalty_history, strategy_resets, objective_sign, current_phase, phase_log,
                 current_iterate>>

VARIABLES
    \* TrustRegionStrategy::rectify_active_set
    ra_pc,          \* position: before or after the call
    ra_radius,      \* the argument radius
    ra_direction,   \* the argument direction, modified in place
    ra_input        \* the direction as it was passed

ra_vars == <<ra_pc, ra_radius, ra_direction, ra_input>>

VARIABLES
    \* SQP
    sqp_pc,             \* position: before or after generate
    problem_gradient,   \* problem.objective_gradient(current_iterate.x)
    objective_gradient, \* this->objective_gradient
    hessian_multiplier, \* objective multiplier of the last Hessian evaluation
    sqp_multipliers     \* objective multipliers passed so far, in order

sqp_vars == <<sqp_pc, problem_gradient, objective_gradient, hessian_multiplier,
              sqp_multipliers>>

\* no SQP subproblem is under construction
SQPIdle ==
    /\ sqp_pc = "idle"
    /\ problem_gradient = <<>>
    /\ objective_gradient = <<>>
    /\ hessian_multiplier = Zero
    /\ sqp_multipliers = <<>>

VARIABLES
    \* multipliers of the restoration phase
    trial_multipliers,  \* trial_iterate.multipliers.constraints
    partition_sets,     \* direction.constraint_partition.value(): the infeasible sets
    subproblem_definition_changed,  \* subproblem->subproblem_definition_changed
    registration_radius \* this->radius at the call of register_accepted_iterate

rm_vars == <<trial_multipliers, partition_sets, subproblem_definition_changed,
             registration_radius>>

NoPartition == [lower_bound_infeasible |-> {}, upper_bound_infeasible |-> {}]

\* a problem without constraints: no multiplier and no infeasible constraint
NoConstraints ==
    /\ trial_multipliers = <<>>
    /\ partition_sets = NoPartition
    /\ subproblem_definition_changed = FALSE
    /\ registration_radius = Zero

VARIABLES
    \* l1Relaxation::compute_predicted_reduction
    pr_pc,      \* position: before or after the call
    pr_input,   \* the arguments: iterate, direction, model and step length
    pr_result   \* the value returned

pr_vars == <<pr_pc, pr_input, pr_result>>

NoPredictedReductionInput ==
    [violation |-> 0, constraints |-> <<>>, constraints_jacobian |-> <<>>, x |-> <<>>,
     model |-> [full_step_value |-> 0, linear_term |-> 0, quadratic_term |-> 0],
     step_length |-> One]

\* compute_predicted_reduction is not running
PRIdle ==
    /\ pr_pc = "idle"
    /\ pr_input = NoPredictedReductionInput
    /\ pr_result = Zero

VARIABLES
    \* BacktrackingLineSearch
    ls_pc,                  \* position inside compute_acceptable_iterate
    ls_options,             \* max_iterations, backtracking_ratio
    step_length,            \* this->step_length
    ls_number_iterations,   \* trials started in the current call
    ls_trials,              \* trials of the current call: step length and result
    ls_calls,               \* calls of compute_acceptable_iterate made so far
    ls_returned             \* step length returned by the last call

ls_vars == <<ls_pc, ls_options, step_length, ls_number_iterations, ls_trials, ls_calls,
             ls_returned>>

\* no line search is used
LSIdle ==
    /\ ls_pc = "none"
    /\ ls_options = [max_iterations |-> 0, backtracking_ratio |-> One]
    /\ step_length = One
    /\ ls_number_iterations = 0
    /\ ls_trials = <<>>
    /\ ls_calls = 0
    /\ ls_returned = Zero

\* the variables that the steps of one component leave alone
beside_engine == <<hm_vars, ra_vars, sqp_vars, rm_vars, pr_vars, ls_vars>>
beside_hm == <<engine_vars, ra_vars, sqp_vars, rm_vars, pr_vars, ls_vars>>
beside_ra == <<engine_vars, hm_vars, sqp_vars, rm_vars, pr_vars, ls_vars>>
beside_sqp == <<engine_vars, hm_vars, ra_vars, rm_vars, pr_vars, ls_vars>>
beside_is_acceptable == <<hm_vars, ra_vars, sqp_vars, pr_vars, ls_vars>>
beside_pr == <<engine_vars, hm_vars, ra_vars, sqp_vars, rm_vars, ls_vars>>
beside_ls == <<engine_vars, hm_vars, ra_vars, sqp_vars, rm_vars, pr_vars>>

vars == <<engine_vars, hm_vars, ra_vars, sqp_vars, rm_vars, pr_vars, ls_vars>>

Standalone == tr_pc = "none"

NoDirection ==
    [status |-> "NONE", x_elastics |-> FALSE, norm |-> Zero, objective_multiplier |-> Zero,
     constraint_partition |-> FALSE, objective |-> 0, residual |-> 0, iteration |-> 0]

NoTrial == [iteration |-> 0, radius |-> Zero, x_elastics |-> FALSE]

NoPhaseLog ==
    [switch_phase |-> FALSE, phase |-> "OPTIMALITY", objective_multiplier |-> Zero,
     constraint_partition |-> FALSE, current_x_elastics |-> FALSE, calls |-> <<>>]

\* the first iterate has the variables of the original problem
InitialIterate == [x_elastics |-> FALSE]

NoFactorization == [singular |-> FALSE, negative_eigenvalues |-> 0]

\* the inertia correction is not running
HMIdle ==
    /\ hm_pc = "idle"
    /\ matrix = <<>>
    /\ inertia = 0
    /\ previous_inertia = 0
    /\ symbolic_nnz = 0
    /\ factorization = NoFactorization
    /\ factorizations = 0
    /\ nnz_matched = TRUE
    /\ assertions = FALSE

NoActiveSetDirection ==
    [x |-> <<>>, at_lower_bound |-> {}, at_upper_bound |-> {},
     lower_bounds |-> <<>>, upper_bounds |-> <<>>]

\* rectify_active_set is not running
RAIdle ==
    /\ ra_pc = "idle"
    /\ ra_radius = 0
    /\ ra_direction = NoActiveSetDirection
    /\ ra_input = NoActiveSetDirection

NoSteering ==
    [linearized_residual |-> 0, current_penalty_parameter |-> Zero,
     residual_lowest_violation |-> 0, lowest_objective |-> 0, violation |-> 0,
     condition1 |-> FALSE, condition2 |-> FALSE, solves |-> 0,
     error_lowest_violation |-> Zero, clamped |-> FALSE, loop_solves |-> 0]


(***************************************************************************)
(* Values returned by the external QP/LP solver and by the evaluations     *)
(***************************************************************************)
ResidualValues == IF Standalone THEN 0..MaxResidual ELSE {0, 1}
ObjectiveValues == IF Standalone THEN 0..MaxResidual ELSE {0, 1}
ViolationValues == IF Standalone THEN 0..MaxResidual ELSE {1}
\* ideal error E0 returned by compute_error
ErrorValues == IF Standalone THEN {Zero, <<1, 2>>, One, <<2, 1>>} ELSE {Zero, <<1, 2>>}
SolveNormFractions == IF Standalone THEN {One} ELSE NormFractions

(***************************************************************************)
(* ConstraintRelaxationStrategy: elastic variables                         *)
(***************************************************************************)
\* add_elastic_variables_to_subproblem: the subproblem carries the elastics
add_elastic_variables_to_subproblem(on_subproblem) == TRUE

\* remove_elastic_variables_from_subproblem: the subproblem has its own variables only
remove_elastic_variables_from_subproblem(on_subproblem) == FALSE

\* remove_elastic_variables_from_direction: the displacement keeps the n variables
remove_elastic_variables_from_direction(d) ==
    [d EXCEPT !.x_elastics = FALSE, !.residual = 0]

\* Subproblem::solve: the direction has one component per variable of the subproblem
SolvedDirection(status, partition, multiplier, res, obj, fraction) ==
    [status |-> status,
     x_elastics |-> elastics_on_subproblem,
     norm |-> RMul(fraction, subproblem_radius),
     objective_multiplier |-> multiplier,
     constraint_partition |-> partition,
     objective |-> obj,
     residual |-> IF elastics_on_subproblem THEN res ELSE 0,
     iteration |-> iteration_id]

(***************************************************************************)
(* l1Relaxation                                                            *)
(***************************************************************************)
\* compute_linearized_constraint_residual: sum of the elastic components
compute_linearized_constraint_residual(d) == d.residual

\* condition 1 of the steering rule (stage d)
SteeringCondition1(st) ==
    \/ st.residual_lowest_violation = 0 /\ st.linearized_residual = 0
    \/ /\ st.residual_lowest_violation # 0
       /\ (st.violation - st.linearized_residual) * epsilon1[2]
             >= epsilon1[1] * (st.violation - st.residual_lowest_violation)

\* condition 2 of the steering rule (stage e)
SteeringCondition2(d, st) ==
    (st.violation - d.objective) * epsilon2[2]
        >= epsilon2[1] * (st.violation - st.lowest_objective)

\* an update from the ideal error that forgets the current penalty parameter
UpdatedPenaltyParameter_without_min(sigma, error_lowest_violation, violation) ==
    LET term == RDiv(error_lowest_violation, RMax(One, <<violation, 1>>))
    IN  RMul(term, term)

\* an update from the ideal error that does not square the ratio
UpdatedPenaltyParameter_unsquared(sigma, error_lowest_violation, violation) ==
    RMin(sigma, RDiv(error_lowest_violation, RMax(One, <<violation, 1>>)))

\* stage f: penalty parameter from the ideal error
UpdatedPenaltyParameter(sigma, error_lowest_violation, violation) ==
    LET term == RDiv(error_lowest_violation, RMax(One, <<violation, 1>>))
    IN  RMin(sigma, RMul(term, term))

\* one division of the penalty parameter in the decrease loop
DecreasedPenaltyParameter_kept(sigma) == sigma

DecreasedPenaltyParameter(sigma) == RDiv(sigma, l1_decrease_factor)

\* a return that leaves the direction as the solver produced it
l1_returned_direction_unstripped(d) == d

\* Direction returned by compute_feasible_direction, solve_feasibility_problem and
\* compute_second_order_correction
l1_returned_direction(d) == remove_elastic_variables_from_direction(d)

\* an end of solve_with_steering_rule that leaves the globalization strategy alone
SteeringReturn_without_reset(d, sigma, st, history, steered) ==
    /\ penalty_parameter' = sigma
    /\ penalty_history' = history
    /\ steering' = st
    /\ strategy_resets' = strategy_resets
    /\ direction' = remove_elastic_variables_from_direction(d)
    /\ elastics_on_subproblem' = remove_elastic_variables_from_subproblem(elastics_on_subproblem)
    /\ rs_pc' = "returned"

\* end of solve_with_steering_rule and of compute_feasible_direction
SteeringReturn(d, sigma, st, history, steered) ==
    /\ penalty_parameter' = sigma
    /\ penalty_history' = history
    /\ steering' = st
    /\ strategy_resets' =
          IF steered /\ RLess(sigma, st.current_penalty_parameter)
          THEN strategy_resets + 1 ELSE strategy_resets
    /\ direction' = l1_returned_direction(d)
    /\ elastics_on_subproblem' = remove_elastic_variables_from_subproblem(elastics_on_subproblem)
    /\ rs_pc' = "returned"

\* head of one iteration of the decrease loop, up to the next solve
SteeringLoop(d, sigma, st, history) ==
    LET c1 == st.condition1 \/ SteeringCondition1(st)
        c2 == c1 /\ SteeringCondition2(d, st)
        decreased == DecreasedPenaltyParameter(sigma)
    IN  IF c2
        THEN SteeringReturn(d, sigma, [st EXCEPT !.condition1 = c1, !.condition2 = TRUE],
                            history, TRUE)
        ELSE IF RLess(decreased, penalty_threshold)
        THEN SteeringReturn(d, Zero, [st EXCEPT !.condition1 = c1, !.condition2 = TRUE,
                                                !.clamped = TRUE],
                            history \o <<decreased, Zero>>, TRUE)
        ELSE /\ penalty_parameter' = decreased
             /\ penalty_history' = history \o <<decreased>>
             /\ steering' = [st EXCEPT !.condition1 = c1]
             /\ direction' = d
             /\ elastics_on_subproblem' = add_elastic_variables_to_subproblem(FALSE)
             /\ rs_pc' = "resolve_loop"
             /\ UNCHANGED strategy_resets

\* a test of the lowest violation that never holds
LowestViolationReached_never(st) == FALSE

\* the zero penalty parameter does not improve on the current violation
LowestViolationReached(st) ==
    0 < st.violation /\ st.residual_lowest_violation = st.violation

\* solve_with_steering_rule: stage a, the initial solve
L1_solve_subproblem ==
    /\ rs_pc = "solve_subproblem"
    /\ \E res \in ResidualValues, obj \in ObjectiveValues, f \in SolveNormFractions :
         LET d == SolvedDirection("OPTIMAL", FALSE, penalty_parameter, res, obj, f)
             st == [steering EXCEPT !.solves = @ + 1,
                       !.linearized_residual = compute_linearized_constraint_residual(d),
                       !.current_penalty_parameter = penalty_parameter]
         IN  IF RLess(Zero, penalty_parameter) /\ st.linearized_residual # 0
             THEN /\ direction' = d
                  /\ steering' = st
                  /\ elastics_on_subproblem' = add_elastic_variables_to_subproblem(FALSE)
                  /\ rs_pc' = "resolve_lowest"
                  /\ UNCHANGED <<penalty_parameter, penalty_history, strategy_resets>>
             ELSE SteeringReturn(d, penalty_parameter, st, penalty_history, FALSE)
    /\ UNCHANGED <<tr_vars, fr_vars, relaxation, subproblem_radius>>
    /\ UNCHANGED beside_engine

\* stage c and stage f: the solve with a zero penalty parameter, then the update
L1_resolve_lowest_violation ==
    /\ rs_pc = "resolve_lowest"
    /\ \E res \in ResidualValues, obj \in ObjectiveValues,
          f \in SolveNormFractions, error_lowest_violation \in ErrorValues :
         LET d0 == SolvedDirection("OPTIMAL", FALSE, Zero, res, obj, f)
             s0 == [steering EXCEPT !.solves = @ + 1,
                       !.residual_lowest_violation = compute_linearized_constraint_residual(d0),
                       !.lowest_objective = d0.objective]
             st == [s0 EXCEPT !.error_lowest_violation = error_lowest_violation]
             updated == UpdatedPenaltyParameter(penalty_parameter, error_lowest_violation,
                                                st.violation)
         IN  IF ~LowestViolationReached(s0)
             THEN IF error_lowest_violation = Zero
                  THEN SteeringReturn(d0, Zero, st, penalty_history \o <<Zero>>, TRUE)
                  ELSE IF RLess(updated, penalty_parameter)
                  THEN IF updated = Zero
                       THEN SteeringLoop(d0, updated, st, penalty_history \o <<updated>>)
                       ELSE /\ penalty_parameter' = updated
                            /\ penalty_history' = penalty_history \o <<updated>>
                            /\ steering' = st
                            /\ elastics_on_subproblem' = add_elastic_variables_to_subproblem(FALSE)
                            /\ rs_pc' = "resolve_updated"
                            /\ UNCHANGED <<direction, strategy_resets>>
                  ELSE SteeringLoop(direction, updated, st, penalty_history \o <<updated>>)
             ELSE SteeringReturn(direction, penalty_parameter, s0, penalty_history, TRUE)
    /\ UNCHANGED <<tr_vars, fr_vars, relaxation, subproblem_radius>>
    /\ UNCHANGED beside_engine

\* stage f: the solve with the updated penalty parameter, then the decrease loop
L1_resolve_updated ==
    /\ rs_pc = "resolve_updated"
    /\ \E res \in ResidualValues, obj \in ObjectiveValues, f \in SolveNormFractions :
         LET d == SolvedDirection("OPTIMAL", FALSE, penalty_parameter, res, obj, f)
         IN  SteeringLoop(d, penalty_parameter, [steering EXCEPT !.solves = @ + 1],
                          penalty_history)
    /\ UNCHANGED <<tr_vars, fr_vars, relaxation, subproblem_radius>>
    /\ UNCHANGED beside_engine

\* the solve inside the decrease loop, then the next iteration of the loop
L1_resolve_in_loop ==
    /\ rs_pc = "resolve_loop"
    /\ \E res \in ResidualValues, obj \in ObjectiveValues, f \in SolveNormFractions :
         LET d == SolvedDirection("OPTIMAL", FALSE, penalty_parameter, res, obj, f)
             st == [steering EXCEPT !.solves = @ + 1, !.loop_solves = @ + 1,
                       !.linearized_residual = compute_linearized_constraint_residual(d)]
         IN  SteeringLoop(d, penalty_parameter, st, penalty_history)
    /\ UNCHANGED <<tr_vars, fr_vars, relaxation, subproblem_radius>>
    /\ UNCHANGED beside_engine

\* the solver raises a NumericalError during one of the solves
L1_solve_throws ==
    /\ rs_pc \in {"solve_subproblem", "resolve_lowest", "resolve_updated", "resolve_loop"}
    /\ rs_pc' = "thrown"
    /\ UNCHANGED <<tr_vars, fr_vars, l1_vars, relaxation, subproblem_radius,
                   elastics_on_subproblem, direction>>
    /\ UNCHANGED beside_engine


(***************************************************************************)
(* FeasibilityRestoration                                                  *)
(***************************************************************************)
\* ConstraintRelaxationStrategy::is_small_step
is_small_step(d) == d.norm = Zero

\* compute_feasible_direction: the solve of the original subproblem
FR_solve ==
    /\ rs_pc = "solve"
    /\ \E status \in {"OPTIMAL", "INFEASIBLE"}, partition \in BOOLEAN,
          f \in SolveNormFractions :
         LET d == SolvedDirection(status, partition, objective_sign, 0, 0, f)
         IN  /\ status = "INFEASIBLE" => f = One
             /\ direction' = d
             /\ IF status = "INFEASIBLE"
                THEN \* create_current_feasibility_problem
                     /\ elastics_on_subproblem' =
                           IF partition THEN elastics_on_subproblem
                           ELSE add_elastic_variables_to_subproblem(elastics_on_subproblem)
                     /\ rs_pc' = "solve_feasibility"
                ELSE /\ rs_pc' = "returned"
                     /\ UNCHANGED elastics_on_subproblem
    /\ tr_log' = Append(tr_log, "solve")
    /\ UNCHANGED <<options, radius, number_iterations, tr_pc, tr_calls, iteration_id,
                   registered, outcome, trial_iterate>>
    /\ UNCHANGED <<l1_vars, fr_vars, relaxation, subproblem_radius>>
    /\ UNCHANGED beside_engine

\* solve_feasibility_problem: the solve of the feasibility problem
FR_solve_feasibility_problem ==
    /\ rs_pc = "solve_feasibility"
    /\ \E f \in SolveNormFractions :
         LET partition == direction.constraint_partition
             d == SolvedDirection("OPTIMAL", partition, Zero, 0, 0, f)
         IN  /\ direction' = d
             /\ elastics_on_subproblem' =
                   IF partition THEN elastics_on_subproblem
                   ELSE remove_elastic_variables_from_subproblem(elastics_on_subproblem)
    /\ rs_pc' = "returned"
    /\ tr_log' = Append(tr_log, "solve_feasibility_problem")
    /\ UNCHANGED <<options, radius, number_iterations, tr_pc, tr_calls, iteration_id,
                   registered, outcome, trial_iterate>>
    /\ UNCHANGED <<l1_vars, fr_vars, relaxation, subproblem_radius>>
    /\ UNCHANGED beside_engine

\* the solver raises a NumericalError during one of the solves
FR_solve_throws ==
    /\ rs_pc \in {"solve", "solve_feasibility"}
    /\ rs_pc' = "thrown"
    /\ UNCHANGED <<tr_vars, fr_vars, l1_vars, relaxation, subproblem_radius,
                   elastics_on_subproblem, direction>>
    /\ UNCHANGED beside_engine

\* a switch that never goes back to the optimality phase
switch_phase_without_return(phase, d) ==
    IF phase = "OPTIMALITY" /\ d.objective_multiplier = Zero
    THEN "FEASIBILITY_RESTORATION"
    ELSE phase

\* switch_phase: the phase after the call
switch_phase(phase, d) ==
    IF phase = "FEASIBILITY_RESTORATION" /\ RLess(Zero, d.objective_multiplier)
    THEN "OPTIMALITY"
    ELSE IF phase = "OPTIMALITY" /\ d.objective_multiplier = Zero
    THEN "FEASIBILITY_RESTORATION"
    ELSE phase

\* switch_phase: the current iterate after the call
switch_phase_current_iterate(phase, d, it) ==
    IF /\ phase = "FEASIBILITY_RESTORATION" /\ RLess(Zero, d.objective_multiplier)
       /\ d.constraint_partition
    THEN [it EXCEPT !.x_elastics = FALSE]
    ELSE it

\* switch_phase: the trial iterate after the call, in the phase the call ends in
switch_phase_trial_iterate(phase, it) ==
    IF phase = "OPTIMALITY" THEN [it EXCEPT !.x_elastics = FALSE] ELSE it

\* a switch to restoration that notifies the phase-1 strategy before the
\* infeasibility measures of the current iterate are computed
switch_phase_calls_notify_first(phase, d, proximal) ==
    IF phase = "OPTIMALITY" /\ d.objective_multiplier = Zero
    THEN <<"phase_2_strategy.notify(current_iterate)",
           "phase_1_strategy.reset",
           "phase_1_strategy.notify(current_iterate)",
           "compute_infeasibility_measures(current_iterate)",
           "compute_infeasibility_measures(trial_iterate)">>
    ELSE <<>>

\* switch_phase: the calls it makes, in order
switch_phase_calls(phase, d, proximal) ==
    LET to_optimality ==
            IF phase = "FEASIBILITY_RESTORATION" /\ RLess(Zero, d.objective_multiplier)
            THEN (IF d.constraint_partition
                  THEN <<"current_iterate.set_number_variables">>
                  ELSE <<>>)
                 \o <<"current_iterate.evaluate_constraints",
                      "compute_progress_measures(current_iterate)">>
            ELSE <<>>
        to_restoration ==
            IF phase = "OPTIMALITY" /\ d.objective_multiplier = Zero
            THEN <<"phase_2_strategy.notify(current_iterate)",
                   "phase_1_strategy.reset",
                   "compute_infeasibility_measures(current_iterate)",
                   "phase_1_strategy.notify(current_iterate)">>
            ELSE <<>>
        trial ==
            IF switch_phase(phase, d) = "OPTIMALITY"
            THEN <<"trial_iterate.set_number_variables",
                   "trial_iterate.evaluate_constraints",
                   "compute_progress_measures(trial_iterate)">>
            ELSE <<"compute_infeasibility_measures(trial_iterate)">>
                 \o (IF proximal
                     THEN <<"add_proximal_term_to_progress_measures(trial_iterate)">>
                     ELSE <<>>)
    IN  to_optimality \o to_restoration \o trial

\* is_acceptable after switch_phase: the predicted reduction, then the acceptance
\* test of the strategy that switch_phase returned
check_acceptance_calls(phase) ==
    <<"predicted_reduction_model.evaluate",
      IF phase = "OPTIMALITY" THEN "phase_2_strategy.check_acceptance"
      ELSE "phase_1_strategy.check_acceptance">>

\* is_acceptable up to the acceptance test: the small-step test and switch_phase
\* is_acceptable, the test of subproblem_definition_changed: the calls it makes
definition_changed_calls ==
    IF subproblem_definition_changed
    THEN <<"phase_2_strategy.reset", "compute_progress_measures(current_iterate)">>
    ELSE <<>>

\* is_acceptable, the branch of a step that is not small: switch_phase, then
\* check_acceptance of the strategy of the phase
FR_switch_phase_and_check ==
    /\ current_phase' = switch_phase(current_phase, direction)
    /\ current_iterate' =
          switch_phase_current_iterate(current_phase, direction, current_iterate)
    /\ trial_iterate' = switch_phase_trial_iterate(current_phase', trial_iterate)
    /\ \E use_proximal_term \in BOOLEAN :
          phase_log' =
             [switch_phase |-> TRUE,
              phase |-> current_phase,
              objective_multiplier |-> direction.objective_multiplier,
              constraint_partition |-> direction.constraint_partition,
              current_x_elastics |-> current_iterate.x_elastics,
              calls |-> definition_changed_calls
                        \o switch_phase_calls(current_phase, direction,
                                              use_proximal_term)
                        \o check_acceptance_calls(current_phase')]

\* the small-step test left out: every direction goes through switch_phase
FR_test_direction_without_small_step == FR_switch_phase_and_check

FR_test_direction ==
    IF is_small_step(direction)
    THEN /\ phase_log' = [NoPhaseLog EXCEPT
                             !.calls = definition_changed_calls
                                       \o <<"compute_progress_measures(trial_iterate)">>]
         /\ UNCHANGED <<current_phase, current_iterate, trial_iterate>>
    ELSE FR_switch_phase_and_check

\* restoration multipliers with the two signs exchanged
set_restoration_multipliers_exchanged(constraint_multipliers, constraint_partition) ==
    [j \in DOMAIN constraint_multipliers |->
        IF j \in constraint_partition.upper_bound_infeasible THEN 1
        ELSE IF j \in constraint_partition.lower_bound_infeasible THEN -1
        ELSE constraint_multipliers[j]]

\* set_restoration_multipliers: 1 on the lower-bound-infeasible constraints, then
\* -1 on the upper-bound-infeasible ones
set_restoration_multipliers(constraint_multipliers, constraint_partition) ==
    [j \in DOMAIN constraint_multipliers |->
        IF j \in constraint_partition.upper_bound_infeasible THEN -1
        ELSE IF j \in constraint_partition.lower_bound_infeasible THEN 1
        ELSE constraint_multipliers[j]]

\* is_acceptable after the acceptance test: the multipliers of the trial iterate
FR_correct_multipliers(accept) ==
    trial_multipliers' =
       IF accept /\ direction.objective_multiplier = Zero /\ direction.constraint_partition
       THEN set_restoration_multipliers(trial_multipliers, partition_sets)
       ELSE trial_multipliers

\* is_acceptable: the result, given the answer of check_acceptance
FR_accept(check_acceptance) == is_small_step(direction) \/ check_acceptance

\* l1Relaxation::is_acceptable: the result, given the answer of check_acceptance
l1_accept(check_acceptance) == direction.norm = Zero \/ check_acceptance


(***************************************************************************)
(* TrustRegionStrategy                                                     *)
(***************************************************************************)
\* a loop test that only stops on a radius that is not positive
termination_nonpositive(r, min_radius) == RLeq(r, Zero)

\* termination
termination(r, min_radius) == RLess(r, min_radius)

\* an accepted step that always increases the radius
AcceptedRadius_always_increased(r, norm, opt) == RMul(r, opt.increase_factor)

\* register_accepted_iterate called ahead of the update of the radius
RegistrationRadius_before_update(before, after) == before

\* the radius at the call of register_accepted_iterate, which follows the update
RegistrationRadius(before, after) == after

\* radius after an accepted step
AcceptedRadius(r, norm, opt) ==
    IF RLeq(RSub(r, opt.activity_tolerance), norm)
    THEN RMul(r, opt.increase_factor)
    ELSE r

\* a rejection that ignores the norm of the rejected direction
RejectedRadius_without_norm(r, norm, opt) == RDiv(r, opt.decrease_factor)

\* radius after a rejected step
RejectedRadius(r, norm, opt) == RDiv(RMin(r, norm), opt.decrease_factor)

\* an error handler that subtracts the factor from the radius
ErrorRadius_subtracting(r, opt) == RSub(r, opt.decrease_factor)

\* an error handler that divides the radius twice
ErrorRadius_twice(r, opt) == RDiv(RDiv(r, opt.decrease_factor), opt.decrease_factor)

\* radius after a NumericalError
ErrorRadius(r, opt) == RDiv(r, opt.decrease_factor)

\* the driver replaces the current iterate with the trial iterate that was returned
ReturnedIterate(trial) == [x_elastics |-> trial.x_elastics]

\* the driver calls compute_acceptable_iterate
TR_compute_acceptable_iterate ==
    /\ tr_pc = "idle"
    /\ current_iterate' = ReturnedIterate(trial_iterate)
    /\ tr_calls' = tr_calls + 1
    /\ number_iterations' = 0
    /\ registered' = <<>>
    /\ outcome' = "running"
    /\ tr_log' = <<>>
    /\ tr_pc' = "loop_test"
    /\ direction' = NoDirection
    /\ trial_iterate' = NoTrial
    /\ registration_radius' = Zero
    /\ UNCHANGED <<options, radius, iteration_id, relaxation, rs_pc,
                   elastics_on_subproblem, subproblem_radius, l1_vars, objective_sign,
                   current_phase, phase_log>>
    /\ UNCHANGED <<trial_multipliers, partition_sets, subproblem_definition_changed>>
    /\ UNCHANGED beside_is_acceptable

\* the loop test; on exit of the loop the call fails
TR_loop_test ==
    /\ tr_pc = "loop_test"
    /\ IF termination(radius, options.min_radius)
       THEN /\ tr_pc' = "failed"
            /\ outcome' = IF RLess(radius, options.min_radius)
                          THEN "Trust-region radius became too small"
                          ELSE "Trust-region failed with an unexpected error"
            /\ UNCHANGED <<number_iterations, iteration_id, tr_log>>
       ELSE /\ iteration_id < MaxIterations
            /\ tr_pc' = IF RLess(Zero, radius) THEN "create" ELSE "assertion_failed"
            /\ number_iterations' = number_iterations + 1
            /\ iteration_id' = iteration_id + 1
            /\ tr_log' = <<>>
            /\ UNCHANGED outcome
    /\ direction' = NoDirection
    /\ trial_iterate' = NoTrial
    /\ phase_log' = NoPhaseLog
    /\ UNCHANGED <<options, radius, tr_calls, registered, relaxation, rs_pc,
                   elastics_on_subproblem, subproblem_radius, l1_vars, objective_sign,
                   current_phase, current_iterate>>
    /\ UNCHANGED beside_engine

\* create_current_subproblem of the relaxation strategy
TR_create_current_subproblem ==
    /\ tr_pc = "create"
    /\ subproblem_radius' = radius
    /\ elastics_on_subproblem' =
          IF relaxation = "l1"
          THEN add_elastic_variables_to_subproblem(elastics_on_subproblem)
          ELSE elastics_on_subproblem
    /\ tr_log' = Append(tr_log, "create_current_subproblem")
    /\ tr_pc' = "direction"
    /\ UNCHANGED <<options, radius, number_iterations, tr_calls, iteration_id, registered,
                   outcome, trial_iterate, direction, relaxation, rs_pc, l1_vars, fr_vars>>
    /\ UNCHANGED beside_engine

\* the call of compute_feasible_direction
TR_compute_feasible_direction ==
    /\ tr_pc = "direction"
    /\ rs_pc = "idle"
    /\ tr_log' = Append(tr_log, "compute_feasible_direction")
    /\ IF relaxation = "l1"
       THEN /\ rs_pc' = "solve_subproblem"
            /\ \E violation \in ViolationValues :
                  steering' = [NoSteering EXCEPT !.violation = violation]
            /\ penalty_history' = <<penalty_parameter>>
            /\ strategy_resets' = 0
       ELSE /\ rs_pc' = "solve"
            /\ UNCHANGED <<steering, penalty_history, strategy_resets>>
    /\ UNCHANGED <<options, radius, number_iterations, tr_pc, tr_calls, iteration_id,
                   registered, outcome, trial_iterate, direction, relaxation,
                   elastics_on_subproblem, subproblem_radius, penalty_parameter, fr_vars>>
    /\ UNCHANGED beside_engine

\* the direction is back: check_unboundedness and rectify_active_set
TR_rectify_active_set ==
    /\ tr_pc = "direction"
    /\ rs_pc = "returned"
    /\ rs_pc' = "idle"
    /\ steering' = NoSteering
    /\ penalty_history' = <<>>
    /\ strategy_resets' = 0
    /\ tr_pc' = "assemble"
    /\ UNCHANGED <<options, radius, number_iterations, tr_calls, iteration_id, tr_log,
                   registered, outcome, trial_iterate, direction, relaxation,
                   elastics_on_subproblem, subproblem_radius, penalty_parameter, fr_vars>>
    /\ UNCHANGED beside_engine

\* a loop body that goes on without assembling the trial iterate
TR_trial_iterate_not_assembled ==
    /\ tr_pc = "assemble"
    /\ tr_pc' = "model"
    /\ UNCHANGED <<options, radius, number_iterations, tr_calls, iteration_id, registered,
                   outcome, direction, relaxation, rs_pc, elastics_on_subproblem,
                   subproblem_radius, l1_vars, fr_vars, trial_iterate, tr_log>>
    /\ UNCHANGED beside_engine

\* assemble_trial_iterate with a full step
TR_assemble_trial_iterate ==
    /\ tr_pc = "assemble"
    /\ trial_iterate' = [iteration |-> direction.iteration,
                         radius |-> subproblem_radius,
                         x_elastics |-> direction.x_elastics]
    /\ tr_log' = Append(tr_log, "assemble_trial_iterate")
    /\ tr_pc' = "model"
    /\ UNCHANGED <<options, radius, number_iterations, tr_calls, iteration_id, registered,
                   outcome, direction, relaxation, rs_pc, elastics_on_subproblem,
                   subproblem_radius, l1_vars, fr_vars>>
    /\ UNCHANGED beside_engine

\* generate_predicted_reduction_model
TR_generate_predicted_reduction_model ==
    /\ tr_pc = "model"
    /\ tr_log' = Append(tr_log, "generate_predicted_reduction_model")
    /\ tr_pc' = "is_acceptable"
    /\ UNCHANGED <<options, radius, number_iterations, tr_calls, iteration_id, registered,
                   outcome, trial_iterate, direction, relaxation, rs_pc,
                   elastics_on_subproblem, subproblem_radius, l1_vars, fr_vars>>
    /\ UNCHANGED beside_engine

\* is_acceptable, then the accepted branch or the rejected branch
TR_is_acceptable ==
    /\ tr_pc = "is_acceptable"
    /\ IF relaxation = "FR" THEN FR_test_direction
       ELSE UNCHANGED <<current_phase, phase_log, current_iterate, trial_iterate>>
    /\ \E check_acceptance \in BOOLEAN :
         LET accept == IF relaxation = "FR" THEN FR_accept(check_acceptance)
                       ELSE l1_accept(check_acceptance)
         IN  /\ IF relaxation = "FR" THEN FR_correct_multipliers(accept)
                ELSE UNCHANGED trial_multipliers
             /\ subproblem_definition_changed' = FALSE
             /\ IF accept
                THEN /\ radius' = AcceptedRadius(radius, direction.norm, options)
                     /\ registered' = Append(registered, trial_iterate.iteration)
                     /\ registration_radius' = RegistrationRadius(radius, radius')
                     /\ tr_log' = tr_log \o <<"is_acceptable", "register_accepted_iterate">>
                     /\ outcome' = "returned"
                     /\ tr_pc' = "idle"
                ELSE /\ radius' = RejectedRadius(radius, direction.norm, options)
                     /\ tr_log' = tr_log \o <<"is_acceptable", "decrease_radius">>
                     /\ tr_pc' = "loop_test"
                     /\ UNCHANGED <<registered, outcome, registration_radius>>
    /\ UNCHANGED <<options, number_iterations, tr_calls, iteration_id,
                   direction, relaxation, rs_pc, elastics_on_subproblem, subproblem_radius,
                   l1_vars, objective_sign, partition_sets>>
    /\ UNCHANGED beside_is_acceptable

\* steps of the loop body that evaluate functions and may raise a NumericalError
ThrowingSteps == {"create", "assemble", "model", "is_acceptable"}

\* catch (const NumericalError&): the radius is decreased and the loop goes on
TR_catch_numerical_error ==
    /\ \/ tr_pc \in ThrowingSteps
       \/ tr_pc = "direction" /\ rs_pc = "thrown"
    /\ radius' = ErrorRadius(radius, options)
    /\ tr_log' = Append(tr_log, "NumericalError")
    /\ rs_pc' = "idle"
    /\ steering' = NoSteering
    /\ penalty_history' = <<>>
    /\ strategy_resets' = 0
    /\ tr_pc' = "loop_test"
    /\ UNCHANGED <<options, number_iterations, tr_calls, iteration_id, registered, outcome,
                   trial_iterate, direction, relaxation, elastics_on_subproblem,
                   subproblem_radius, penalty_parameter, fr_vars>>
    /\ UNCHANGED beside_engine

\* a NumericalError raised by is_acceptable after switch_phase changed the phase
TR_catch_error_after_switch_phase ==
    /\ tr_pc = "is_acceptable"
    /\ relaxation = "FR"
    /\ ~is_small_step(direction)
    /\ FR_test_direction
    /\ radius' = ErrorRadius(radius, options)
    /\ tr_log' = tr_log \o <<"is_acceptable", "NumericalError">>
    /\ tr_pc' = "loop_test"
    /\ UNCHANGED <<options, number_iterations, tr_calls, iteration_id, registered, outcome,
                   direction, relaxation, rs_pc, elastics_on_subproblem,
                   subproblem_radius, l1_vars, objective_sign>>
    /\ UNCHANGED beside_engine

(***************************************************************************)
(* Specification of the trust-region mechanism over either strategy        *)
(***************************************************************************)
Init ==
    /\ options \in [increase_factor : IncreaseFactors, decrease_factor : DecreaseFactors,
                    activity_tolerance : ActivityTolerances, min_radius : MinRadii]
    /\ radius \in InitialRadii
    /\ number_iterations = 0
    /\ tr_pc = "idle"
    /\ tr_calls = 0
    /\ iteration_id = 0
    /\ tr_log = <<>>
    /\ registered = <<>>
    /\ outcome = "none"
    /\ direction = NoDirection
    /\ trial_iterate = NoTrial
    /\ relaxation \in {"l1", "FR"}
    /\ rs_pc = "idle"
    /\ elastics_on_subproblem = FALSE
    /\ subproblem_radius = Zero
    /\ penalty_parameter \in IF relaxation = "l1" THEN InitialPenalties ELSE {One}
    /\ steering = NoSteering
    /\ penalty_history = <<>>
    /\ strategy_resets = 0
    /\ objective_sign \in IF relaxation = "FR" THEN ObjectiveSigns ELSE {One}
    /\ current_phase = "OPTIMALITY"
    /\ phase_log = NoPhaseLog
    /\ current_iterate = InitialIterate
    /\ HMIdle
    /\ RAIdle
    /\ SQPIdle
    /\ NoConstraints
    /\ PRIdle
    /\ LSIdle

Next ==
    \/ TR_compute_acceptable_iterate
    \/ TR_loop_test
    \/ TR_create_current_subproblem
    \/ TR_compute_feasible_direction
    \/ TR_rectify_active_set
    \/ TR_assemble_trial_iterate
    \/ TR_generate_predicted_reduction_model
    \/ TR_is_acceptable
    \/ TR_catch_numerical_error
    \/ TR_catch_error_after_switch_phase
    \/ L1_solve_subproblem
    \/ L1_resolve_lowest_violation
    \/ L1_resolve_updated
    \/ L1_resolve_in_loop
    \/ L1_solve_throws
    \/ FR_solve
    \/ FR_solve_feasibility_problem
    \/ FR_solve_throws

Spec == Init /\ [][Next]_vars


(***************************************************************************)
(* Specification of the relaxation strategies alone: one call of a         *)
(* direction-computing function on a subproblem that was just created      *)
(***************************************************************************)
\* ConstraintRelaxationStrategy::compute_second_order_correction
base_second_order_correction(x_elastics, f) ==
    [SolvedDirection("OPTIMAL", FALSE, penalty_parameter, 0, 0, f)
        EXCEPT !.x_elastics = x_elastics]

\* l1Relaxation::solve_feasibility_problem
L1_solve_feasibility_problem ==
    /\ rs_pc = "feasibility_problem"
    /\ RLess(Zero, penalty_parameter)
    /\ elastics_on_subproblem' = add_elastic_variables_to_subproblem(elastics_on_subproblem)
    /\ rs_pc' = "resolve_feasibility"
    /\ UNCHANGED <<tr_vars, fr_vars, l1_vars, relaxation, subproblem_radius, direction>>
    /\ UNCHANGED beside_engine

\* resolve_subproblem with a zero objective multiplier, then the return
L1_resolve_feasibility ==
    /\ rs_pc = "resolve_feasibility"
    /\ \E res \in ResidualValues, obj \in ObjectiveValues, f \in SolveNormFractions :
         direction' = l1_returned_direction(SolvedDirection("OPTIMAL", FALSE, Zero, res, obj, f))
    /\ elastics_on_subproblem' = remove_elastic_variables_from_subproblem(elastics_on_subproblem)
    /\ steering' = [steering EXCEPT !.solves = @ + 1]
    /\ rs_pc' = "returned"
    /\ UNCHANGED <<tr_vars, fr_vars, penalty_parameter, penalty_history, strategy_resets,
                   relaxation, subproblem_radius>>
    /\ UNCHANGED beside_engine

\* l1Relaxation::compute_second_order_correction
L1_compute_second_order_correction ==
    /\ rs_pc = "second_order_correction"
    /\ \E x_elastics \in BOOLEAN, f \in SolveNormFractions :
         direction' = l1_returned_direction(base_second_order_correction(x_elastics, f))
    /\ rs_pc' = "returned"
    /\ UNCHANGED <<tr_vars, fr_vars, l1_vars, relaxation, subproblem_radius,
                   elastics_on_subproblem>>
    /\ UNCHANGED beside_engine

L1_solve_feasibility_throws ==
    /\ rs_pc = "resolve_feasibility"
    /\ rs_pc' = "thrown"
    /\ UNCHANGED <<tr_vars, fr_vars, l1_vars, relaxation, subproblem_radius,
                   elastics_on_subproblem, direction>>
    /\ UNCHANGED beside_engine

InitRS ==
    /\ options = [increase_factor |-> One, decrease_factor |-> One,
                  activity_tolerance |-> One, min_radius |-> One]
    /\ radius = One
    /\ number_iterations = 0
    /\ tr_pc = "none"
    /\ tr_calls = 0
    /\ iteration_id = 1
    /\ tr_log = <<>>
    /\ registered = <<>>
    /\ outcome = "none"
    /\ direction = NoDirection
    /\ trial_iterate = NoTrial
    /\ relaxation \in {"l1", "FR"}
    /\ rs_pc \in IF relaxation = "l1"
                 THEN {"solve_subproblem", "feasibility_problem", "second_order_correction"}
                 ELSE {"solve"}
    /\ elastics_on_subproblem = (relaxation = "l1" /\ rs_pc = "solve_subproblem")
    /\ subproblem_radius = One
    /\ penalty_parameter \in IF relaxation = "l1" THEN InitialPenalties ELSE {One}
    /\ steering \in {[NoSteering EXCEPT !.violation = v] :
                        v \in IF relaxation = "l1" /\ rs_pc = "solve_subproblem"
                              THEN ViolationValues ELSE {0}}
    /\ penalty_history = <<penalty_parameter>>
    /\ strategy_resets = 0
    /\ objective_sign \in IF relaxation = "FR" THEN ObjectiveSigns ELSE {One}
    /\ current_phase = "OPTIMALITY"
    /\ phase_log = NoPhaseLog
    /\ current_iterate = InitialIterate
    /\ HMIdle
    /\ RAIdle
    /\ SQPIdle
    /\ NoConstraints
    /\ PRIdle
    /\ LSIdle

NextRS ==
    \/ L1_solve_subproblem
    \/ L1_resolve_lowest_violation
    \/ L1_resolve_updated
    \/ L1_resolve_in_loop
    \/ L1_solve_throws
    \/ L1_solve_feasibility_problem
    \/ L1_resolve_feasibility
    \/ L1_solve_feasibility_throws
    \/ L1_compute_second_order_correction
    \/ FR_solve
    \/ FR_solve_feasibility_problem
    \/ FR_solve_throws

SpecRS == InitRS /\ [][NextRS]_vars


\* --------------------------------------------------------------------------
\* Inertia correction: HessianModel::modify_inertia on a coordinate-form
\* matrix, with a direct symmetric indefinite linear solver.
\* Matrix values are integers, in units of half of beta.
\* --------------------------------------------------------------------------

\* largest magnitude of an entry of the initial matrix
MaxEntry == 2

\* largest number of entries of the initial matrix
MaxNonzeros == 2

\* const double beta = 1e-4 (two units)
beta == 2

\* the matrices have two rows and two columns
Indices == {0, 1}

\* the entries of the lower triangle
Entries == {e \in Indices \X Indices \X (-MaxEntry..MaxEntry) : e[2] <= e[1]}

RECURSIVE SequencesUpTo(_, _)
\* the sequences over S of length at most n
SequencesUpTo(S, n) ==
    IF n = 0 THEN {<<>>}
    ELSE LET shorter == SequencesUpTo(S, n - 1)
         IN shorter \cup {Append(q, e) : q \in {t \in shorter : Len(t) = n - 1}, e \in S}

\* COOSymmetricMatrix::insert always appends an entry: the lookup of an
\* existing entry is disabled
insert(m, term, row_index, column_index) ==
    Append(m, <<row_index, column_index, term>>)

\* COOSymmetricMatrix::add_identity_multiple
add_identity_multiple(m, multiple) ==
    insert(insert(m, multiple, 0, 0), multiple, 1, 1)

\* COOSymmetricMatrix::smallest_diagonal_entry: the minimum over the stored
\* diagonal entries, 0 when there is none
smallest_diagonal_entry(m) ==
    LET diagonal == {m[k][3] : k \in {l \in DOMAIN m : m[l][1] = m[l][2]}}
    IN IF diagonal = {} THEN 0
       ELSE CHOOSE v \in diagonal : \A w \in diagonal : v <= w

\* number of stored entries
number_nonzeros(m) == Len(m)

RECURSIVE Coefficient(_, _, _)
\* the coefficient (i, j) of the matrix that the entries represent: entries of
\* the same position add up
Coefficient(m, i, j) ==
    IF m = <<>> THEN 0
    ELSE (IF Head(m)[1] = i /\ Head(m)[2] = j THEN Head(m)[3] ELSE 0) + Coefficient(Tail(m), i, j)

Determinant(m) ==
    Coefficient(m, 0, 0) * Coefficient(m, 1, 1) - Coefficient(m, 1, 0) * Coefficient(m, 1, 0)

\* LinearSolver::matrix_is_singular after a factorization of m
matrix_is_singular(m) == Determinant(m) = 0

\* LinearSolver::number_negative_eigenvalues after a factorization of m
number_negative_eigenvalues(m) ==
    IF Determinant(m) < 0 THEN 1
    ELSE IF Determinant(m) > 0
         THEN (IF Coefficient(m, 0, 0) < 0 THEN 2 ELSE 0)
         ELSE (IF Coefficient(m, 0, 0) + Coefficient(m, 1, 1) < 0 THEN 1 ELSE 0)

\* what the solver reports after do_numerical_factorization(m)
do_numerical_factorization(m) ==
    [singular |-> matrix_is_singular(m), negative_eigenvalues |-> number_negative_eigenvalues(m)]

\* a test of the factorization that ignores the negative eigenvalues
good_inertia_without_eigenvalues(f) == ~f.singular

\* the test of the loop of modify_inertia
good_inertia(f) == ~f.singular /\ f.negative_eigenvalues = 0

\* a first shift that brings every smallest diagonal entry below beta up to beta
InitialInertia_up_to_beta(m) ==
    IF smallest_diagonal_entry(m) < beta THEN beta - smallest_diagonal_entry(m) ELSE 0

\* the diagonal shift of the first factorization
InitialInertia(m) ==
    IF smallest_diagonal_entry(m) <= 0 THEN beta - smallest_diagonal_entry(m) ELSE 0

\* the diagonal shift of a retry
NextInertia(i) == IF i = 0 THEN beta ELSE 2 * i

\* modify_inertia up to the loop: the first shift, the symbolic and the
\* numerical factorization
HM_modify_inertia ==
    /\ hm_pc = "start"
    /\ inertia' = InitialInertia(matrix)
    /\ previous_inertia' = 0
    /\ matrix' = IF 0 < InitialInertia(matrix)
                 THEN add_identity_multiple(matrix, InitialInertia(matrix) - 0)
                 ELSE matrix
    /\ symbolic_nnz' = number_nonzeros(matrix')
    /\ factorization' = do_numerical_factorization(matrix')
    /\ factorizations' = 1
    /\ nnz_matched' = TRUE
    /\ hm_pc' = "loop"
    /\ UNCHANGED <<assertions, beside_hm>>

\* the loop finds a nonsingular factorization without negative eigenvalue
HM_return ==
    /\ hm_pc = "loop"
    /\ good_inertia(factorization)
    /\ hm_pc' = "returned"
    /\ UNCHANGED <<matrix, inertia, previous_inertia, symbolic_nnz, factorization,
                   factorizations, nnz_matched, assertions, beside_hm>>

\* the loop shifts the diagonal further and factorizes again, numerically only
HM_retry ==
    /\ hm_pc = "loop"
    /\ ~good_inertia(factorization)
    /\ previous_inertia' = inertia
    /\ inertia' = NextInertia(inertia)
    /\ matrix' = add_identity_multiple(matrix, inertia' - previous_inertia')
    /\ nnz_matched' = (nnz_matched /\ symbolic_nnz = number_nonzeros(matrix'))
    /\ IF assertions /\ symbolic_nnz # number_nonzeros(matrix')
       THEN /\ hm_pc' = "assertion_failed"
            /\ UNCHANGED <<factorization, factorizations>>
       ELSE /\ factorization' = do_numerical_factorization(matrix')
            /\ factorizations' = factorizations + 1
            /\ hm_pc' = "loop"
    /\ UNCHANGED <<symbolic_nnz, assertions, beside_hm>>

\* the state of the engine while the inertia correction runs on its own
EngineIdle ==
    /\ options = [increase_factor |-> <<2, 1>>, decrease_factor |-> <<2, 1>>,
                  activity_tolerance |-> Zero, min_radius |-> One]
    /\ radius = One
    /\ number_iterations = 0
    /\ tr_pc = "none"
    /\ tr_calls = 0
    /\ iteration_id = 0
    /\ tr_log = <<>>
    /\ registered = <<>>
    /\ outcome = "none"
    /\ direction = NoDirection
    /\ trial_iterate = NoTrial
    /\ relaxation = "none"
    /\ rs_pc = "idle"
    /\ elastics_on_subproblem = FALSE
    /\ subproblem_radius = One
    /\ penalty_parameter = One
    /\ steering = NoSteering
    /\ penalty_history = <<>>
    /\ strategy_resets = 0
    /\ objective_sign = One
    /\ current_phase = "OPTIMALITY"
    /\ phase_log = NoPhaseLog
    /\ current_iterate = InitialIterate

InitHM ==
    /\ EngineIdle
    /\ hm_pc = "start"
    /\ matrix \in SequencesUpTo(Entries, MaxNonzeros)
    /\ inertia = 0
    /\ previous_inertia = 0
    /\ symbolic_nnz = 0
    /\ factorization = NoFactorization
    /\ factorizations = 0
    /\ nnz_matched = TRUE
    /\ assertions \in BOOLEAN
    /\ RAIdle
    /\ SQPIdle
    /\ NoConstraints
    /\ PRIdle
    /\ LSIdle

NextHM ==
    \/ HM_modify_inertia
    \/ HM_return
    \/ HM_retry

\* modify_inertia runs to completion: no step of it waits for anything
SpecHM == InitHM /\ [][NextHM]_vars /\ WF_vars(NextHM)


\* --------------------------------------------------------------------------
\* TrustRegionStrategy::rectify_active_set on the direction of a subproblem
\* with two variables. Displacements and the radius are integers.
\* --------------------------------------------------------------------------

\* largest radius
MaxRadius == 2

\* the variables of the subproblem
VariableIndices == {1, 2}

\* the directions that a solve within the radius r can return
ActiveSetDirections(r) ==
    [x : [VariableIndices -> -r..r],
     at_lower_bound : SUBSET VariableIndices,
     at_upper_bound : SUBSET VariableIndices,
     lower_bounds : [VariableIndices -> {0, 1}],
     upper_bounds : [VariableIndices -> {-1, 0}]]

\* a rectification that compares the magnitude of the displacement with the radius
rectify_active_set_by_magnitude(d, r) ==
    LET hit == {i \in VariableIndices : d.x[i] = r \/ d.x[i] = -r}
    IN  [d EXCEPT
           !.at_lower_bound = @ \ hit,
           !.at_upper_bound = @ \ hit,
           !.lower_bounds = [i \in VariableIndices |->
                               IF i \in d.at_lower_bound \cap hit THEN 0 ELSE @[i]],
           !.upper_bounds = [i \in VariableIndices |->
                               IF i \in d.at_upper_bound \cap hit THEN 0 ELSE @[i]]]

\* rectify_active_set: the direction after the two loops
rectify_active_set(d, r) ==
    LET erased_lower == {i \in d.at_lower_bound : d.x[i] = -r}
        erased_upper == {i \in d.at_upper_bound : d.x[i] = r}
    IN  [d EXCEPT
           !.at_lower_bound = @ \ erased_lower,
           !.at_upper_bound = @ \ erased_upper,
           !.lower_bounds = [i \in VariableIndices |-> IF i \in erased_lower THEN 0 ELSE @[i]],
           !.upper_bounds = [i \in VariableIndices |-> IF i \in erased_upper THEN 0 ELSE @[i]]]

\* the call of rectify_active_set
RA_rectify_active_set ==
    /\ ra_pc = "start"
    /\ 0 < ra_radius
    /\ ra_direction' = rectify_active_set(ra_direction, ra_radius)
    /\ ra_pc' = "done"
    /\ UNCHANGED <<ra_radius, ra_input, beside_ra>>

InitRA ==
    /\ EngineIdle
    /\ HMIdle
    /\ ra_pc = "start"
    /\ ra_radius \in 1..MaxRadius
    /\ ra_direction \in ActiveSetDirections(ra_radius)
    /\ ra_input = ra_direction
    /\ SQPIdle
    /\ NoConstraints
    /\ PRIdle
    /\ LSIdle

NextRA == RA_rectify_active_set

SpecRA == InitRA /\ [][NextRA]_vars

Last(q) == q[Len(q)]

\* C1: with positive options the radius is strictly positive in every state
\* of compute_acceptable_iterate, in particular at the entry of every loop
\* iteration, and the assertion 0 < radius at the top of the loop never fails.
C1_RadiusPositive ==
    /\ RLess(Zero, radius)
    /\ tr_pc # "assertion_failed"

\* a second call enters its second loop iteration
C1_Witness ==
    /\ tr_pc = "create"
    /\ tr_calls = 2
    /\ number_iterations = 2
    /\ RLess(Zero, radius)

\* C2: a loop test with a radius below min_radius ends the call with the
\* error "radius became too small", without any solve or registration; and
\* no returned iterate was computed with a radius below min_radius.
C2_RadiusFloor ==
    /\ [](outcome = "returned" => ~RLess(trial_iterate.radius, options.min_radius))
    /\ [][(tr_pc = "loop_test" /\ RLess(radius, options.min_radius)) =>
             /\ tr_pc' = "failed"
             /\ outcome' = "Trust-region radius became too small"
             /\ UNCHANGED <<registered, tr_log, rs_pc, elastics_on_subproblem, radius>>]_vars

\* the call has failed on the radius floor after a rejection
C2_Witness ==
    /\ tr_pc = "failed"
    /\ outcome = "Trust-region radius became too small"
    /\ tr_log # <<>>
    /\ Last(tr_log) = "decrease_radius"

\* position of a component in the order of one iteration
Rank(e) ==
    CASE e = "create_current_subproblem" -> 1
      [] e = "compute_feasible_direction" -> 2
      [] e = "solve" -> 3
      [] e = "solve_feasibility_problem" -> 4
      [] e = "assemble_trial_iterate" -> 5
      [] e = "generate_predicted_reduction_model" -> 6
      [] e = "is_acceptable" -> 7
      [] e = "register_accepted_iterate" -> 8
      [] e = "decrease_radius" -> 8
      [] OTHER -> 9

\* the component that must have run before e in the same iteration
Predecessor(e) ==
    CASE e = "compute_feasible_direction" -> "create_current_subproblem"
      [] e = "solve" -> "compute_feasible_direction"
      [] e = "solve_feasibility_problem" -> "solve"
      [] e = "assemble_trial_iterate" -> "compute_feasible_direction"
      [] e = "generate_predicted_reduction_model" -> "assemble_trial_iterate"
      [] e = "is_acceptable" -> "generate_predicted_reduction_model"
      [] e = "register_accepted_iterate" -> "is_acceptable"
      [] e = "decrease_radius" -> "is_acceptable"
      [] OTHER -> e

\* C6: within one iteration the components run in the fixed order create,
\* direction (solve, then the feasibility solve), assembly, acceptance test,
\* then commit or reject, none before its predecessor; and the acceptance
\* test runs on the trial iterate assembled from the direction of the same
\* iteration.
C6_FixedOrder ==
    /\ \A i \in 1..Len(tr_log) :
          /\ i > 1 => Rank(tr_log[i - 1]) < Rank(tr_log[i])
          /\ \E j \in 1..i : tr_log[j] = Predecessor(tr_log[i])
    /\ tr_pc \in {"model", "is_acceptable"} =>
          /\ trial_iterate.iteration = iteration_id
          /\ direction.iteration = iteration_id
    /\ (/\ tr_pc \in {"idle", "loop_test"}
        /\ tr_log # <<>>
        /\ Last(tr_log) \in {"register_accepted_iterate", "decrease_radius"}) =>
          /\ trial_iterate.iteration = iteration_id
          /\ direction.iteration = iteration_id

\* an iterate is committed in the second iteration of a call, after both
\* solves of feasibility restoration
C6_Witness ==
    /\ outcome = "returned"
    /\ number_iterations = 2
    /\ tr_log = <<"create_current_subproblem", "compute_feasible_direction", "solve",
                  "solve_feasibility_problem", "assemble_trial_iterate",
                  "generate_predicted_reduction_model", "is_acceptable",
                  "register_accepted_iterate">>

\* C7: a rejection sets the radius to min(radius, norm of the direction) /
\* decrease_factor; with decrease_factor > 1 the new radius is at most the
\* norm of the rejected direction and strictly below the previous radius.
C7_RejectedRadius ==
    [][(tr_pc = "is_acceptable" /\ tr_log' = tr_log \o <<"is_acceptable", "decrease_radius">>) =>
          /\ radius' = RDiv(RMin(radius, direction.norm), options.decrease_factor)
          /\ RLess(One, options.decrease_factor) =>
                /\ RLeq(radius', direction.norm)
                /\ RLess(radius', radius)]_vars

\* a step shorter than the radius was rejected, and the norm bounds the new radius
C7_Witness ==
    /\ tr_pc = "loop_test"
    /\ tr_log # <<>>
    /\ Last(tr_log) = "decrease_radius"
    /\ RLess(direction.norm, subproblem_radius)
    /\ RLess(radius, direction.norm)

\* C8: the phase of feasibility restoration changes only in a step that runs
\* switch_phase: to FEASIBILITY_RESTORATION exactly when the phase is
\* OPTIMALITY and the direction has objective_multiplier = 0, to OPTIMALITY
\* exactly when the phase is FEASIBILITY_RESTORATION and the direction has
\* objective_multiplier > 0, and not at all otherwise.
C8_PhaseSwitch ==
    [][/\ current_phase' # current_phase =>
             (tr_pc = "is_acceptable" /\ phase_log'.switch_phase)
       /\ (tr_pc = "is_acceptable" /\ phase_log'.switch_phase) =>
             current_phase' =
                IF current_phase = "OPTIMALITY" /\ direction.objective_multiplier = Zero
                THEN "FEASIBILITY_RESTORATION"
                ELSE IF current_phase = "FEASIBILITY_RESTORATION"
                        /\ RLess(Zero, direction.objective_multiplier)
                THEN "OPTIMALITY"
                ELSE current_phase]_vars

\* switch_phase has just brought the strategy back to the optimality phase
C8_Witness ==
    /\ phase_log.switch_phase
    /\ phase_log.phase = "FEASIBILITY_RESTORATION"
    /\ RLess(Zero, phase_log.objective_multiplier)
    /\ current_phase = "OPTIMALITY"

\* C9: a NumericalError raised in an iteration is caught: the radius is
\* divided by decrease_factor once, nothing is registered, the call neither
\* returns nor fails in that step, and the loop goes back to its test.
C9_NumericalErrorCaught ==
    [][(tr_log' # tr_log /\ tr_log' # <<>> /\ Last(tr_log') = "NumericalError") =>
          /\ radius' = RDiv(radius, options.decrease_factor)
          /\ registered' = registered
          /\ outcome' = "running"
          /\ tr_pc' = "loop_test"]_vars

\* the error of a solve of the direction computation has been caught
C9_Witness ==
    /\ tr_pc = "loop_test"
    /\ tr_log = <<"create_current_subproblem", "compute_feasible_direction", "NumericalError">>
    /\ registered = <<>>
    /\ outcome = "running"

\* C10: at every entry of create_current_subproblem the subproblem carries no
\* elastic variable of an earlier iteration.
C10_NoElasticsAtCreate ==
    tr_pc = "create" => ~elastics_on_subproblem

\* --------------------------------------------------------------------------
\* Properties of the relaxation strategies (specification SpecRS)
\* --------------------------------------------------------------------------

C4_PenaltyNonIncreasing ==
    /\ \A i \in 1..Len(penalty_history) :
          /\ RLeq(Zero, penalty_history[i])
          /\ i > 1 => RLeq(penalty_history[i], penalty_history[i - 1])
    /\ penalty_history # <<>> => penalty_parameter = Last(penalty_history)
    /\ rs_pc = "returned" => RLeq(penalty_parameter, penalty_history[1])

\* the steering rule returns after two strict decreases of the penalty parameter
C4_Witness ==
    /\ relaxation = "l1"
    /\ rs_pc = "returned"
    /\ Len(penalty_history) >= 3
    /\ RLess(penalty_history[2], penalty_history[1])
    /\ RLess(penalty_history[3], penalty_history[2])

\* --------------------------------------------------------------------------
\* Properties of the steering rule (specification SpecRS)
\* --------------------------------------------------------------------------

\* C11: when a division makes the penalty parameter fall below the threshold,
\* it is set to 0 and the returned direction is the direction of the
\* subproblem with a zero penalty parameter: its objective_multiplier is 0.
C11_ClampReturnsLowestViolation ==
    (rs_pc = "returned" /\ steering.clamped) =>
        /\ penalty_parameter = Zero
        /\ direction.objective_multiplier = Zero

\* the initial direction without its elastic components
InitialDirectionReturned ==
    direction' = [direction EXCEPT !.x_elastics = FALSE, !.residual = 0]

\* C13, as stated: when the residual of the initial direction is nonzero and
\* the residual of the zero-penalty direction equals the current violation,
\* both possibly 0, the penalty parameter is unchanged, the initial direction
\* is returned and the globalization strategy is not reset.
C13_KeepWhenResidualEqualsViolation ==
    [][(/\ rs_pc = "resolve_lowest"
        /\ rs_pc' # "thrown"
        /\ steering.linearized_residual # 0
        /\ steering'.residual_lowest_violation = steering'.violation) =>
          /\ penalty_parameter' = penalty_parameter
          /\ rs_pc' = "returned"
          /\ InitialDirectionReturned
          /\ strategy_resets' = strategy_resets]_vars

\* C13, amended: the same when the current violation is positive.
C13_KeepWhenPositiveResidualEqualsViolation ==
    [][(/\ rs_pc = "resolve_lowest"
        /\ rs_pc' # "thrown"
        /\ steering.linearized_residual # 0
        /\ 0 < steering'.violation
        /\ steering'.residual_lowest_violation = steering'.violation) =>
          /\ penalty_parameter' = penalty_parameter
          /\ rs_pc' = "returned"
          /\ InitialDirectionReturned
          /\ strategy_resets' = strategy_resets]_vars

\* the rule has returned the initial direction because the zero penalty
\* parameter reaches no lower violation
C13_Witness ==
    /\ relaxation = "l1"
    /\ rs_pc = "returned"
    /\ steering.solves = 2
    /\ steering.linearized_residual # 0
    /\ 0 < steering.violation
    /\ steering.residual_lowest_violation = steering.violation
    /\ RLess(Zero, penalty_parameter)
    /\ direction.objective_multiplier = penalty_parameter
    /\ penalty_history = <<penalty_parameter>>
    /\ strategy_resets = 0

\* condition C1 as the specification writes it, for the direction d
StatedCondition1(d, st) ==
    (st.violation - d.residual) * epsilon1[2]
        >= epsilon1[1] * (st.violation - st.residual_lowest_violation)

\* C14: the penalty parameter is divided and the subproblem solved again only
\* when condition C1 or condition C2 fails for the current direction.
C14_DecreaseOnlyWhenConditionFails ==
    rs_pc = "resolve_loop" =>
        ~(StatedCondition1(direction, steering) /\ SteeringCondition2(direction, steering))

\* C15: solve_with_steering_rule resets the globalization strategy once if
\* the penalty parameter at exit is below the one at entry, never otherwise,
\* and not before its last solve.
C15_ResetIffDecreased ==
    /\ rs_pc # "returned" => strategy_resets = 0
    /\ rs_pc = "returned" =>
          strategy_resets = IF RLess(penalty_parameter, penalty_history[1]) THEN 1 ELSE 0

\* the rule has returned after three solves with a smaller penalty parameter
C15_Witness ==
    /\ relaxation = "l1"
    /\ rs_pc = "returned"
    /\ steering.solves >= 3
    /\ RLess(penalty_parameter, penalty_history[1])
    /\ strategy_resets = 1

\* C16: when the residual of the initial direction is nonzero and the
\* residual of the zero-penalty direction differs from the violation: with a
\* zero ideal error the rule returns the zero-penalty direction with a zero
\* penalty parameter and no further solve; otherwise the penalty parameter
\* becomes min(sigma, (E0 / max(1, violation))^2) and the subproblem is
\* solved with it exactly when this is a strict decrease.
C16_UpdateFromIdealError ==
    [][(/\ rs_pc = "resolve_lowest"
        /\ rs_pc' # "thrown"
        /\ steering.linearized_residual # 0
        /\ steering'.residual_lowest_violation # steering'.violation) =>
          LET E0 == steering'.error_lowest_violation
              ratio == RDiv(E0, RMax(One, <<steering.violation, 1>>))
              updated == RMin(penalty_parameter, RMul(ratio, ratio))
          IN  IF E0 = Zero
              THEN /\ penalty_parameter' = Zero
                   /\ rs_pc' = "returned"
                   /\ direction'.objective_multiplier = Zero
                   /\ direction'.objective = steering'.lowest_objective
                   /\ steering'.solves = steering.solves + 1
              ELSE /\ penalty_history'[Len(penalty_history) + 1] = updated
                   /\ rs_pc' = "resolve_updated" <=> RLess(updated, penalty_parameter)
                   /\ rs_pc' = "resolve_updated" => penalty_parameter' = updated]_vars

\* the subproblem is about to be solved with the penalty parameter that the
\* ideal error has strictly decreased
C16_Witness ==
    /\ rs_pc = "resolve_updated"
    /\ steering.error_lowest_violation # Zero
    /\ steering.residual_lowest_violation # steering.violation
    /\ RLess(penalty_parameter, penalty_history[1])
    /\ Len(penalty_history) = 2

(***************************************************************************)
(* Phase switches of FeasibilityRestoration                                *)
(***************************************************************************)
\* position of the first occurrence of a call in a sequence of calls (0: absent)
Position(calls, call) ==
    IF \E i \in 1..Len(calls) : calls[i] = call
    THEN CHOOSE i \in 1..Len(calls) :
            calls[i] = call /\ \A j \in 1..(i - 1) : calls[j] # call
    ELSE 0

\* the calls are all made, in the order given
InOrder(calls, expected) ==
    /\ \A i \in 1..Len(expected) : Position(calls, expected[i]) > 0
    /\ \A i \in 1..(Len(expected) - 1) :
          Position(calls, expected[i]) < Position(calls, expected[i + 1])

\* C17: whenever switch_phase goes from restoration to optimality, with or without
\* a constraint partition in the direction, the current iterate is reset to the
\* original variables (no elastic components are left), then its constraints are
\* evaluated and its progress measures computed, and only then the trial iterate
\* is tested, by the phase-2 strategy.
C17_ElasticsDroppedOnReturnToOptimality ==
    (phase_log.switch_phase /\ phase_log.phase = "FEASIBILITY_RESTORATION"
        /\ RLess(Zero, phase_log.objective_multiplier)) =>
       /\ InOrder(phase_log.calls,
                  <<"current_iterate.set_number_variables",
                    "current_iterate.evaluate_constraints",
                    "compute_progress_measures(current_iterate)",
                    "phase_2_strategy.check_acceptance">>)
       /\ Position(phase_log.calls, "phase_1_strategy.check_acceptance") = 0
       /\ (tr_pc = "loop_test" => ~current_iterate.x_elastics)

\* the switch to optimality is made on a current iterate that carries elastic
\* components, with a direction that has no constraint partition
C17_CurrentIterateKeepsElastics ==
    /\ phase_log.switch_phase
    /\ phase_log.phase = "FEASIBILITY_RESTORATION"
    /\ RLess(Zero, phase_log.objective_multiplier)
    /\ ~phase_log.constraint_partition
    /\ phase_log.current_x_elastics
    /\ tr_pc = "loop_test"
    /\ current_iterate.x_elastics

\* C18: whenever switch_phase goes from optimality to restoration, the phase-2
\* strategy is notified of the current iterate, the phase-1 strategy is reset, the
\* infeasibility measures of the current iterate are computed and the phase-1
\* strategy is notified of it, in this order, before the measures of the trial
\* iterate are computed and before the acceptance test, which the phase-1
\* strategy makes.
C18_EntryToRestoration ==
    (phase_log.switch_phase /\ phase_log.phase = "OPTIMALITY"
        /\ phase_log.objective_multiplier = Zero) =>
       /\ InOrder(phase_log.calls,
                  <<"phase_2_strategy.notify(current_iterate)",
                    "phase_1_strategy.reset",
                    "compute_infeasibility_measures(current_iterate)",
                    "phase_1_strategy.notify(current_iterate)",
                    "compute_infeasibility_measures(trial_iterate)",
                    "phase_1_strategy.check_acceptance">>)
       /\ Position(phase_log.calls, "phase_2_strategy.check_acceptance") = 0
       /\ Position(phase_log.calls, "compute_progress_measures(trial_iterate)") = 0
       /\ current_phase = "FEASIBILITY_RESTORATION"

\* switch_phase has gone from optimality to restoration
C18_Witness ==
    /\ phase_log.switch_phase
    /\ phase_log.phase = "OPTIMALITY"
    /\ phase_log.objective_multiplier = Zero
    /\ current_phase = "FEASIBILITY_RESTORATION"
    /\ Position(phase_log.calls, "phase_1_strategy.check_acceptance") > 0

(***************************************************************************)
(* Accepted steps of the trust-region loop                                 *)
(***************************************************************************)
\* the step of the loop that accepts the trial iterate
AcceptedStep == tr_pc = "is_acceptable" /\ tr_pc' = "idle"

\* on an accepted step: the radius is multiplied by increase_factor exactly when
\* norm >= radius - activity_tolerance, and the call returns the trial iterate with
\* the norm of the direction
AcceptedStepEffect ==
    /\ radius' = IF RLeq(RSub(radius, options.activity_tolerance), direction.norm)
                 THEN RMul(radius, options.increase_factor)
                 ELSE radius
    /\ outcome' = "returned"
    /\ registered' = Append(registered, trial_iterate.iteration)
    /\ trial_iterate'.iteration = trial_iterate.iteration
    /\ trial_iterate.iteration = direction.iteration
    /\ direction' = direction

\* C19 as stated: the effect of an accepted step, and the radius is never decreased
\* on an accepted step.
C19_AcceptedStepNeverDecreases ==
    [][AcceptedStep => (AcceptedStepEffect /\ RLeq(radius, radius'))]_vars

\* C19: the effect of an accepted step, and the radius is not decreased on an
\* accepted step when increase_factor >= 1.
C19_AcceptedStep ==
    [][AcceptedStep =>
          /\ AcceptedStepEffect
          /\ RLeq(One, options.increase_factor) => RLeq(radius, radius')]_vars

\* a step was accepted with an active trust region and the radius was increased
C19_Witness ==
    /\ tr_pc = "idle"
    /\ outcome = "returned"
    /\ RLeq(RSub(subproblem_radius, options.activity_tolerance), direction.norm)
    /\ radius = RMul(subproblem_radius, options.increase_factor)
    /\ RLess(subproblem_radius, radius)

(***************************************************************************)
(* Diagonal shifts of modify_inertia                                       *)
(***************************************************************************)
\* every step of modify_inertia adds to the diagonal what it adds to the shift,
\* and leaves the rest of the matrix alone: the total shift applied is the
\* current shift
ShiftApplied ==
    /\ \A i \in Indices :
          Coefficient(matrix', i, i) - inertia' = Coefficient(matrix, i, i) - inertia
    /\ Coefficient(matrix', 1, 0) = Coefficient(matrix, 1, 0)

\* a failed factorization is followed by the shift beta if the shift was 0 and
\* by twice the shift otherwise
ShiftOfRetry ==
    (hm_pc = "loop" /\ hm_pc' # "returned") =>
       inertia' = IF inertia = 0 THEN beta ELSE 2 * inertia

\* C20 as stated: the first shift is max(0, beta - m) for every smallest diagonal
\* entry m; a retry takes beta after 0 and twice the shift otherwise; the total
\* shift applied is the current shift.
C20_ShiftFromMaximum ==
    [][/\ hm_pc = "start" =>
             (inertia' = LET m == smallest_diagonal_entry(matrix)
                         IN  IF 0 <= beta - m THEN beta - m ELSE 0)
        /\ ShiftOfRetry
        /\ ShiftApplied]_vars

\* C20: the first shift is beta - m when the smallest diagonal entry m that
\* smallest_diagonal_entry reports is at most 0, and 0 when it is positive; a retry
\* takes beta after 0 and twice the shift otherwise; the total shift applied is the
\* current shift.
C20_ShiftOnlyForNonpositiveDiagonal ==
    [][/\ hm_pc = "start" =>
             (inertia' = LET m == smallest_diagonal_entry(matrix)
                         IN  IF m <= 0 THEN beta - m ELSE 0)
        /\ ShiftOfRetry
        /\ ShiftApplied]_vars

\* the first factorization was made without shift of a matrix whose smallest
\* diagonal entry lies between 0 and beta
C20_Witness ==
    /\ hm_pc = "loop"
    /\ factorizations = 1
    /\ inertia = 0
    /\ 0 < smallest_diagonal_entry(matrix)
    /\ smallest_diagonal_entry(matrix) < beta

\* the shift was doubled by a retry
C20_ShiftDoubled ==
    /\ hm_pc \in {"loop", "returned"}
    /\ 0 < previous_inertia
    /\ inertia = 2 * previous_inertia

(***************************************************************************)
(* Duplicate entries of the coordinate-form matrix                         *)
(***************************************************************************)
\* the smallest diagonal value of the matrix that the entries represent
SmallestDiagonalOfSum(m) ==
    CHOOSE v \in {Coefficient(m, i, i) : i \in Indices} :
       \A i \in Indices : v <= Coefficient(m, i, i)

\* every diagonal position has a stored entry
DiagonalStored(m) ==
    \A i \in Indices : \E k \in DOMAIN m : m[k][1] = i /\ m[k][2] = i

\* C21: after any sequence of insert and add_identity_multiple calls,
\* smallest_diagonal_entry() is the smallest diagonal value of the represented
\* matrix, in which the entries stored for one position are summed.
C21_SmallestDiagonalOfSum ==
    DiagonalStored(matrix) =>
       smallest_diagonal_entry(matrix) = SmallestDiagonalOfSum(matrix)

\* add_identity_multiple has left a matrix in which a diagonal position is stored
\* more than once
C21_DuplicateAfterShift ==
    /\ hm_pc = "loop"
    /\ 0 < inertia
    /\ DiagonalStored(matrix)
    /\ smallest_diagonal_entry(matrix) < SmallestDiagonalOfSum(matrix)

(***************************************************************************)
(* SQP: the objective multiplier of the subproblem                         *)
(***************************************************************************)
\* objective multipliers passed by the relaxation strategies
ObjectiveMultipliers == {Zero, <<1, 4>>, <<1, 2>>, One}

\* the objective gradients of the problem: two variables
ProblemGradients == [1..2 -> (-MaxGradient)..MaxGradient]

\* clear
clear(v) == [i \in DOMAIN v |-> Zero]

\* scale
scale(v, factor) == [i \in DOMAIN v |-> RMul(v[i], factor)]

\* problem.objective_gradient: the gradient as a vector of reals
evaluated_objective_gradient(g) == [i \in DOMAIN g |-> Rat(g[i], 1)]

\* SQP::update_objective_multiplier: the stored objective gradient after the call
update_objective_multiplier(stored, g, objective_multiplier) ==
    IF objective_multiplier = Zero
    THEN clear(stored)
    ELSE IF RLess(objective_multiplier, One)
    THEN scale(evaluated_objective_gradient(g), objective_multiplier)
    ELSE stored

\* SQP::generate
SQP_generate ==
    /\ sqp_pc = "start"
    /\ \E objective_multiplier \in ObjectiveMultipliers :
         /\ objective_gradient' =
               update_objective_multiplier(evaluated_objective_gradient(problem_gradient),
                                           problem_gradient, objective_multiplier)
         /\ hessian_multiplier' = objective_multiplier
         /\ sqp_multipliers' = <<objective_multiplier>>
    /\ sqp_pc' = "generated"
    /\ UNCHANGED <<problem_gradient, beside_sqp>>

\* SQP::update_objective_multiplier, called at the iterate of the last generate
SQP_update_objective_multiplier ==
    /\ sqp_pc = "generated"
    /\ Len(sqp_multipliers) <= MaxUpdates
    /\ \E objective_multiplier \in ObjectiveMultipliers :
         /\ objective_gradient' =
               update_objective_multiplier(objective_gradient, problem_gradient,
                                           objective_multiplier)
         /\ hessian_multiplier' = objective_multiplier
         /\ sqp_multipliers' = Append(sqp_multipliers, objective_multiplier)
    /\ UNCHANGED <<sqp_pc, problem_gradient, beside_sqp>>

InitSQP ==
    /\ EngineIdle
    /\ HMIdle
    /\ RAIdle
    /\ sqp_pc = "start"
    /\ problem_gradient \in ProblemGradients
    /\ objective_gradient = clear(problem_gradient)
    /\ hessian_multiplier = Zero
    /\ sqp_multipliers = <<>>
    /\ NoConstraints
    /\ PRIdle
    /\ LSIdle

NextSQP ==
    \/ SQP_generate
    \/ SQP_update_objective_multiplier

SpecSQP == InitSQP /\ [][NextSQP]_vars

\* C22: after generate and any sequence of calls of update_objective_multiplier at
\* the same iterate, the stored objective gradient is the zero vector when the
\* last multiplier is 0 and the multiplier times the gradient of the objective
\* when it is in ]0, 1], whatever the earlier multipliers were, and the Hessian was
\* evaluated with the last multiplier.
C22_GradientScaledByLastMultiplier ==
    sqp_pc = "generated" =>
       /\ objective_gradient =
             [i \in DOMAIN problem_gradient |->
                 RMul(Rat(problem_gradient[i], 1), Last(sqp_multipliers))]
       /\ hessian_multiplier = Last(sqp_multipliers)

\* the multiplier 1 was passed after the multiplier 0 and the stored gradient is
\* still the zero vector, for a gradient that is not zero
C22_GradientStaysZero ==
    /\ sqp_pc = "generated"
    /\ Len(sqp_multipliers) = 3
    /\ sqp_multipliers[2] = Zero
    /\ sqp_multipliers[3] = One
    /\ problem_gradient # [i \in 1..2 |-> 0]
    /\ objective_gradient = clear(problem_gradient)

(***************************************************************************)
(* FeasibilityRestoration::is_acceptable: the multipliers of the trial     *)
(* iterate                                                                 *)
(***************************************************************************)
\* constraint multipliers of a trial iterate
MultiplierValues == {-2, 0, 1}

\* the partitions of the constraints: the two infeasible sets are disjoint
ConstraintPartitions ==
    {[lower_bound_infeasible |-> L, upper_bound_infeasible |-> U] :
        <<L, U>> \in {lu \in (SUBSET (1..MaxConstraints)) \X (SUBSET (1..MaxConstraints)) :
                         lu[1] \cap lu[2] = {}}}

\* the directions that compute_feasible_direction hands to is_acceptable
TestedDirections ==
    {[status |-> "OPTIMAL", x_elastics |-> (multiplier = Zero /\ ~partition),
      norm |-> norm, objective_multiplier |-> multiplier,
      constraint_partition |-> partition, objective |-> 0, residual |-> 0,
      iteration |-> 1] :
        norm \in {Zero, One}, multiplier \in {Zero, One}, partition \in BOOLEAN}

\* the loop of compute_acceptable_iterate reaches is_acceptable with a direction,
\* its trial iterate and the multipliers of that iterate
InitRM ==
    /\ options = [increase_factor |-> <<2, 1>>, decrease_factor |-> <<2, 1>>,
                  activity_tolerance |-> Zero, min_radius |-> One]
    /\ radius = One
    /\ number_iterations = 1
    /\ tr_pc = "is_acceptable"
    /\ tr_calls = 1
    /\ iteration_id = 1
    /\ direction \in TestedDirections
    /\ tr_log = <<"create_current_subproblem", "compute_feasible_direction", "solve">>
                \o (IF direction.objective_multiplier = Zero
                    THEN <<"solve_feasibility_problem">> ELSE <<>>)
                \o <<"assemble_trial_iterate", "generate_predicted_reduction_model">>
    /\ registered = <<>>
    /\ outcome = "running"
    /\ trial_iterate = [iteration |-> 1, radius |-> One, x_elastics |-> direction.x_elastics]
    /\ relaxation = "FR"
    /\ rs_pc = "idle"
    /\ elastics_on_subproblem = FALSE
    /\ subproblem_radius = One
    /\ penalty_parameter = One
    /\ steering = NoSteering
    /\ penalty_history = <<>>
    /\ strategy_resets = 0
    /\ objective_sign = One
    /\ current_phase \in {"OPTIMALITY", "FEASIBILITY_RESTORATION"}
    /\ phase_log = NoPhaseLog
    /\ current_iterate = InitialIterate
    /\ trial_multipliers \in [1..MaxConstraints -> MultiplierValues]
    /\ partition_sets \in IF direction.constraint_partition THEN ConstraintPartitions
                          ELSE {NoPartition}
    /\ subproblem_definition_changed \in BOOLEAN
    /\ registration_radius = Zero
    /\ HMIdle
    /\ RAIdle
    /\ SQPIdle
    /\ PRIdle
    /\ LSIdle

NextRM ==
    \/ TR_is_acceptable
    \/ TR_catch_numerical_error
    \/ TR_catch_error_after_switch_phase

SpecRM == InitRM /\ [][NextRM]_vars

\* C23: when is_acceptable accepts a direction with objective multiplier 0 that
\* carries a constraint partition, the constraint multipliers of the trial iterate
\* become +1 on the lower-bound-infeasible constraints, -1 on the
\* upper-bound-infeasible ones and stay as they were on the others; with a nonzero
\* objective multiplier or without partition the acceptance modifies no constraint
\* multiplier.
C23_RestorationMultipliers ==
    [][(tr_pc = "is_acceptable" /\ tr_pc' = "idle" /\ relaxation = "FR") =>
          IF direction.objective_multiplier = Zero /\ direction.constraint_partition
          THEN \A j \in DOMAIN trial_multipliers :
                  /\ j \in partition_sets.lower_bound_infeasible =>
                        trial_multipliers'[j] = 1
                  /\ j \in partition_sets.upper_bound_infeasible =>
                        trial_multipliers'[j] = -1
                  /\ j \notin (partition_sets.lower_bound_infeasible
                               \cup partition_sets.upper_bound_infeasible) =>
                        trial_multipliers'[j] = trial_multipliers[j]
          ELSE trial_multipliers' = trial_multipliers]_vars

\* a feasibility direction with a partition was accepted: one multiplier is +1 on
\* a lower-bound-infeasible constraint, one is -1 on an upper-bound-infeasible one
C23_Witness ==
    /\ tr_pc = "idle"
    /\ outcome = "returned"
    /\ relaxation = "FR"
    /\ direction.objective_multiplier = Zero
    /\ direction.constraint_partition
    /\ \E j \in partition_sets.lower_bound_infeasible : trial_multipliers[j] = 1
    /\ \E j \in partition_sets.upper_bound_infeasible : trial_multipliers[j] = -1

(***************************************************************************)
(* l1Relaxation::compute_predicted_reduction                               *)
(***************************************************************************)
\* step lengths of a mechanism: 1 for the trust region, less in a line search
StepLengths == {One, <<1, 2>>, <<1, 4>>}

\* the bounds [c_L, c_U] of every constraint
constraint_bounds == [lb |-> Zero, ub |-> One]

\* primal parts of a direction: two variables
DirectionPrimals == {<<1, 0>>, <<1, 1>>}

\* gradients of a constraint
ConstraintGradients == {<<1, 0>>, <<0, -1>>, <<1, 1>>}

\* predicted reduction models of a subproblem: the value of the full step, the
\* linear and the quadratic term
PredictedReductionModels ==
    {[full_step_value |-> 1, linear_term |-> -1, quadratic_term |-> 0],
     [full_step_value |-> 0, linear_term |-> 0, quadratic_term |-> 1],
     [full_step_value |-> 2, linear_term |-> -1, quadratic_term |-> 1]}

RECURSIVE dot(_, _)
\* dot
dot(x, y) ==
    IF x = <<>> \/ y = <<>> THEN 0
    ELSE Head(x) * Head(y) + dot(Tail(x), Tail(y))

\* Problem::compute_constraint_violation of one component
compute_constraint_violation(component) ==
    RMax(RMax(Zero, RSub(constraint_bounds.lb, component)),
         RSub(component, constraint_bounds.ub))

RECURSIVE norm_1(_, _)
\* norm_1 of the values f[1], ..., f[n]
norm_1(f, n) == IF n = 0 THEN Zero ELSE RAdd(norm_1(f, n - 1), RAbs(f[n]))

\* PredictedReductionModel::evaluate: the stored value for the full step, the
\* quadratic function of the step length otherwise
evaluate(model, alpha) ==
    IF alpha = One
    THEN Rat(model.full_step_value, 1)
    ELSE RNeg(RMul(alpha,
                   RAdd(Rat(model.linear_term, 1),
                        RMul(alpha, Rat(model.quadratic_term, 1)))))

\* a predicted reduction that subtracts the linearized violation for every step
\* length
compute_predicted_reduction_uniform(in) ==
    LET residual_function ==
            [j \in DOMAIN in.constraints |->
                compute_constraint_violation(
                   RAdd(Rat(in.constraints[j], 1),
                        RMul(in.step_length,
                             Rat(dot(in.x, in.constraints_jacobian[j]), 1))))]
        linearized_constraint_violation == norm_1(residual_function, Len(in.constraints))
    IN  RAdd(RSub(Rat(in.violation, 1), linearized_constraint_violation),
             evaluate(in.model, in.step_length))

\* l1Relaxation::compute_predicted_reduction
compute_predicted_reduction(in) ==
    IF in.step_length = One
    THEN RAdd(Rat(in.violation, 1), evaluate(in.model, in.step_length))
    ELSE LET residual_function ==
                 [j \in DOMAIN in.constraints |->
                     compute_constraint_violation(
                        RAdd(Rat(in.constraints[j], 1),
                             RMul(in.step_length,
                                  Rat(dot(in.x, in.constraints_jacobian[j]), 1))))]
             linearized_constraint_violation ==
                 norm_1(residual_function, Len(in.constraints))
         IN  RAdd(RSub(Rat(in.violation, 1), linearized_constraint_violation),
                  evaluate(in.model, in.step_length))

\* the call of compute_predicted_reduction
PR_compute_predicted_reduction ==
    /\ pr_pc = "start"
    /\ pr_result' = compute_predicted_reduction(pr_input)
    /\ pr_pc' = "done"
    /\ UNCHANGED <<pr_input, beside_pr>>

InitPR ==
    /\ EngineIdle
    /\ HMIdle
    /\ RAIdle
    /\ SQPIdle
    /\ NoConstraints
    /\ pr_pc = "start"
    /\ pr_input \in [violation : 0..MaxResidual,
                     constraints : [1..MaxConstraints -> {-1, 0, 1}],
                     constraints_jacobian : [1..MaxConstraints -> ConstraintGradients],
                     x : DirectionPrimals,
                     model : PredictedReductionModels,
                     step_length : StepLengths]
    /\ pr_result = Zero
    /\ LSIdle

NextPR == PR_compute_predicted_reduction

SpecPR == InitPR /\ [][NextPR]_vars

\* distance of a value to the interval [c_L, c_U]
DistanceToBounds(v) ==
    IF RLess(v, constraint_bounds.lb) THEN RSub(constraint_bounds.lb, v)
    ELSE IF RLess(constraint_bounds.ub, v) THEN RSub(v, constraint_bounds.ub)
    ELSE Zero

RECURSIVE SumOfDistances(_, _, _)
\* sum over the constraints j <= n of the distance of c_j + alpha * g_j to the bounds
SumOfDistances(in, alpha, n) ==
    IF n = 0 THEN Zero
    ELSE RAdd(SumOfDistances(in, alpha, n - 1),
              DistanceToBounds(
                 <<in.constraints[n] * alpha[2]
                      + alpha[1] * (in.x[1] * in.constraints_jacobian[n][1]
                                    + in.x[2] * in.constraints_jacobian[n][2]),
                   alpha[2]>>))

\* the value returned minus the current violation and the reduction of the model
Surplus == RSub(RSub(pr_result, Rat(pr_input.violation, 1)),
                evaluate(pr_input.model, pr_input.step_length))

\* C24 as stated: for every step length in ]0, 1], 1 included, the value returned
\* is (current violation - linearized violation at the step length) + the
\* predicted reduction of the subproblem at the step length.
C24_LinearizedViolationSubtracted ==
    pr_pc = "done" =>
       Surplus = RNeg(SumOfDistances(pr_input, pr_input.step_length, MaxConstraints))

\* C24: for a step length below 1 the value returned is (current violation -
\* linearized violation at the step length) + the predicted reduction of the
\* subproblem at the step length; for the step length 1 it is the current
\* violation + the predicted reduction of the subproblem at 1, and no linearized
\* violation is subtracted.
C24_LinearizedViolationBelowFullStep ==
    pr_pc = "done" =>
       Surplus = IF pr_input.step_length = One THEN Zero
                 ELSE RNeg(SumOfDistances(pr_input, pr_input.step_length,
                                          MaxConstraints))

\* the value was returned for a full step whose linearized constraints are violated
C24_Witness ==
    /\ pr_pc = "done"
    /\ pr_input.step_length = One
    /\ RLess(Zero, SumOfDistances(pr_input, One, MaxConstraints))
    /\ Surplus = Zero

\* the value was returned for a shorter step with a linearized violation
C24_ShorterStep ==
    /\ pr_pc = "done"
    /\ pr_input.step_length # One
    /\ RLess(Surplus, Zero)

(***************************************************************************)
(* BacktrackingLineSearch                                                  *)
(***************************************************************************)
\* int max_iterations = 7
default_max_iterations == 7

\* const double min_step_length{1e-6}
min_step_length == <<1, 1000000>>

\* max_iterations and backtracking_ratio (in ]0, 1[, 0.5 by default)
LineSearchOptions ==
    [max_iterations : {3, default_max_iterations},
     backtracking_ratio : {<<1, 2>>, <<1, 100>>}]

\* a step length that is not decreased
decrease_step_length_unchanged(alpha, ratio) == alpha

\* decrease_step_length
decrease_step_length(alpha, ratio) == RMul(alpha, ratio)

\* termination_: the trials are used up or the step length is too small
termination_(iterations, alpha, opt) ==
    opt.max_iterations <= iterations \/ RLess(alpha, min_step_length)

\* the driver calls compute_acceptable_iterate: the step length starts at 1
LS_compute_acceptable_iterate ==
    /\ ls_pc \in {"idle", "returned"}
    /\ ls_calls < MaxLineSearches
    /\ ls_calls' = ls_calls + 1
    /\ step_length' = One
    /\ ls_number_iterations' = 0
    /\ ls_trials' = <<>>
    /\ ls_returned' = Zero
    /\ ls_pc' = "loop_test"
    /\ UNCHANGED <<ls_options, beside_ls>>

\* the loop test; on exit of the loop the call fails
LS_loop_test ==
    /\ ls_pc = "loop_test"
    /\ IF termination_(ls_number_iterations, step_length, ls_options)
       THEN /\ ls_pc' = "failed"
            /\ UNCHANGED ls_number_iterations
       ELSE /\ ls_pc' = "trial"
            /\ ls_number_iterations' = ls_number_iterations + 1
    /\ UNCHANGED <<ls_options, step_length, ls_trials, ls_calls, ls_returned, beside_ls>>

\* the trial iterate at the current step length is tested
LS_is_acceptable ==
    /\ ls_pc = "trial"
    /\ \E accept \in BOOLEAN :
         IF accept
         THEN /\ ls_trials' = Append(ls_trials, <<step_length, "accepted">>)
              /\ ls_returned' = step_length
              /\ ls_pc' = "returned"
              /\ UNCHANGED step_length
         ELSE /\ ls_trials' = Append(ls_trials, <<step_length, "rejected">>)
              /\ step_length' = decrease_step_length(step_length,
                                                     ls_options.backtracking_ratio)
              /\ ls_pc' = "loop_test"
              /\ UNCHANGED ls_returned
    /\ UNCHANGED <<ls_options, ls_number_iterations, ls_calls, beside_ls>>

\* a NumericalError during the trial: the line search backtracks
LS_catch_numerical_error ==
    /\ ls_pc = "trial"
    /\ ls_trials' = Append(ls_trials, <<step_length, "NumericalError">>)
    /\ step_length' = decrease_step_length(step_length, ls_options.backtracking_ratio)
    /\ ls_pc' = "loop_test"
    /\ UNCHANGED <<ls_options, ls_number_iterations, ls_calls, ls_returned, beside_ls>>

InitLS ==
    /\ EngineIdle
    /\ HMIdle
    /\ RAIdle
    /\ SQPIdle
    /\ NoConstraints
    /\ PRIdle
    /\ ls_pc = "idle"
    /\ ls_options \in LineSearchOptions
    /\ step_length = One
    /\ ls_number_iterations = 0
    /\ ls_trials = <<>>
    /\ ls_calls = 0
    /\ ls_returned = Zero

NextLS ==
    \/ LS_compute_acceptable_iterate
    \/ LS_loop_test
    \/ LS_is_acceptable
    \/ LS_catch_numerical_error

\* a call runs to its end: no step of it waits for anything
SpecLS == InitLS /\ [][NextLS]_vars /\ WF_vars(NextLS)

RECURSIVE Power(_, _)
Power(ratio, k) == IF k = 0 THEN One ELSE RMul(ratio, Power(ratio, k - 1))

\* the step lengths tried in the current call are 1, rho, rho^2, ..., strictly
\* decreasing, and there are at most max_iterations of them
TrialsBacktrack ==
    /\ \A k \in DOMAIN ls_trials :
          ls_trials[k][1] = Power(ls_options.backtracking_ratio, k - 1)
    /\ \A k \in DOMAIN ls_trials :
          k > 1 => RLess(ls_trials[k][1], ls_trials[k - 1][1])
    /\ Len(ls_trials) <= ls_options.max_iterations
    /\ \A k \in DOMAIN ls_trials : ~RLess(ls_trials[k][1], min_step_length)

\* the call returns at the first accepted trial, with its step length, and fails
\* only when the trials are used up or the step length is below the minimum
CallEnds ==
    /\ ls_pc = "returned" =>
          /\ ls_trials # <<>>
          /\ Last(ls_trials) = <<ls_returned, "accepted">>
    /\ \A k \in DOMAIN ls_trials :
          ls_trials[k][2] = "accepted" => (k = Len(ls_trials) /\ ls_pc = "returned")
    /\ ls_pc = "failed" =>
          \/ Len(ls_trials) = ls_options.max_iterations
          \/ RLess(step_length, min_step_length)
    /\ (ls_pc = "loop_test" /\ ls_trials = <<>>) => step_length = One

\* C25: every call of the line search starts at the step length 1, tries 1, rho,
\* rho^2, ... in strictly decreasing order, returns at the first accepted trial
\* with its step length, fails after at most max_iterations trials or as soon as
\* the step length is below min_step_length, and always ends.
C25_BacktrackingTerminates ==
    /\ [](TrialsBacktrack /\ CallEnds)
    /\ (ls_pc \in {"loop_test", "trial"}) ~> (ls_pc \in {"returned", "failed"})

\* a call failed because the step length fell below min_step_length before the
\* trials were used up
C25_Witness ==
    /\ ls_pc = "failed"
    /\ RLess(step_length, min_step_length)
    /\ Len(ls_trials) < ls_options.max_iterations
    /\ Len(ls_trials) > 1

\* a call failed after max_iterations trials
C25_TrialsUsedUp ==
    /\ ls_pc = "failed"
    /\ Len(ls_trials) = ls_options.max_iterations
    /\ ~RLess(step_length, min_step_length)

\* C26: after any call of switch_phase on a direction of compute_feasible_direction,
\* whose objective multiplier is the objective sign of the problem (+1 or -1) or 0,
\* the current phase is FEASIBILITY_RESTORATION if and only if the objective
\* multiplier of the direction is 0, and the acceptance test is made by the
\* phase-1 strategy exactly in that case.
C26_RestorationIffZeroMultiplier ==
    phase_log.switch_phase =>
       /\ current_phase = "FEASIBILITY_RESTORATION"
             <=> phase_log.objective_multiplier = Zero
       /\ Position(phase_log.calls, "phase_1_strategy.check_acceptance") > 0
             <=> phase_log.objective_multiplier = Zero

\* switch_phase has left the strategy in the restoration phase on a direction of
\* the original subproblem of a maximization problem
C26_RestorationKeptOnNegativeMultiplier ==
    /\ phase_log.switch_phase
    /\ phase_log.phase = "FEASIBILITY_RESTORATION"
    /\ current_phase = "FEASIBILITY_RESTORATION"
    /\ RLess(phase_log.objective_multiplier, Zero)
    /\ Position(phase_log.calls, "phase_1_strategy.check_acceptance") > 0

\* C27: during modify_inertia every numerical factorization, the retries after a
\* larger shift included, is made on a matrix whose number of stored nonzeros is
\* the number recorded by the symbolic factorization, so the assertion of
\* do_numerical_factorization holds on every call.
C27_NonzerosMatchOnEveryFactorization ==
    /\ nnz_matched
    /\ hm_pc # "assertion_failed"
    /\ hm_pc \in {"loop", "returned"} => symbolic_nnz = number_nonzeros(matrix)

\* a retry has factorized a matrix with more stored nonzeros than were recorded
C27_RetryWithMoreNonzeros ==
    /\ hm_pc = "loop"
    /\ factorizations = 2
    /\ symbolic_nnz + Cardinality(Indices) = number_nonzeros(matrix)


(***************************************************************************)
(* The decrease loop of l1Relaxation::solve_with_steering_rule             *)
(***************************************************************************)
SpecRSFair == InitRS /\ [][NextRS]_vars /\ WF_vars(NextRS)

\* the number of divisions by decrease_factor that bring sigma below
\* penalty_threshold
RECURSIVE Divisions(_)
Divisions(sigma) ==
    IF RLess(sigma, penalty_threshold)
    THEN 0
    ELSE 1 + Divisions(RDiv(sigma, l1_decrease_factor))

\* C28: with decrease_factor > 1 and penalty_threshold > 0, the decrease loop
\* of solve_with_steering_rule terminates whatever the subproblem solves
\* return: the re-solves made inside the loop, together with the divisions
\* the present sigma still needs, never exceed the divisions that bring the
\* entry value of sigma below penalty_threshold, and a pending re-solve of
\* the loop leads to the return of the call or to a NumericalError.
C28_DecreaseLoopTerminates ==
    /\ [](relaxation = "l1" /\ rs_pc \in {"resolve_loop", "returned", "thrown"}
            => /\ RLess(One, l1_decrease_factor) /\ RLess(Zero, penalty_threshold)
               /\ steering.loop_solves + Divisions(penalty_parameter)
                     <= Divisions(penalty_history[1]))
    /\ (rs_pc = "resolve_loop" ~> rs_pc \in {"returned", "thrown"})

\* the loop has re-solved the subproblem twice and then returned
C28_Witness ==
    /\ rs_pc = "returned"
    /\ steering.loop_solves = 2
    /\ RLeq(penalty_threshold, penalty_history[1])

\* the loop ended by the clamp to zero after a re-solve
C28_ClampedAfterResolve ==
    /\ rs_pc = "returned"
    /\ steering.loop_solves >= 1
    /\ steering.clamped


(***************************************************************************)
(* A small step in FeasibilityRestoration::is_acceptable                   *)
(***************************************************************************)
\* C29: when the direction is a small step, is_acceptable, unless an evaluation
\* raises a NumericalError, accepts the trial iterate; it leaves current_phase
\* and the current iterate as they are and calls
\* neither switch_phase nor check_acceptance nor notify of either strategy:
\* its only calls are compute_progress_measures of the trial iterate, preceded
\* by the reset of the phase-2 strategy and compute_progress_measures of the
\* current iterate exactly when subproblem_definition_changed was set; this
\* holds whether or not the objective multiplier of the direction matches the
\* current phase.
C29_SmallStepAcceptedWithoutSwitch ==
    [][tr_pc = "is_acceptable" /\ relaxation = "FR" /\ is_small_step(direction)
       => /\ current_phase' = current_phase
          /\ current_iterate' = current_iterate
          /\ trial_iterate' = trial_iterate
          /\ \/ tr_log' = Append(tr_log, "NumericalError")
             \/ /\ outcome' = "returned"
                /\ registered' = Append(registered, trial_iterate.iteration)
                /\ ~phase_log'.switch_phase
                /\ phase_log'.calls =
                      (IF subproblem_definition_changed
                       THEN <<"phase_2_strategy.reset",
                              "compute_progress_measures(current_iterate)">>
                       ELSE <<>>)
                      \o <<"compute_progress_measures(trial_iterate)">>
                /\ ~subproblem_definition_changed']_vars

\* a small step with objective multiplier 0 was accepted in the optimality
\* phase, and the phase is still the optimality phase
C29_Witness ==
    /\ relaxation = "FR"
    /\ outcome = "returned"
    /\ is_small_step(direction)
    /\ direction.objective_multiplier = Zero
    /\ current_phase = "OPTIMALITY"
    /\ phase_log.calls = <<"compute_progress_measures(trial_iterate)">>

\* a small step with a positive objective multiplier was accepted in the
\* restoration phase after the subproblem definition had changed
C29_SmallStepAfterDefinitionChange ==
    /\ relaxation = "FR"
    /\ outcome = "returned"
    /\ is_small_step(direction)
    /\ RLess(Zero, direction.objective_multiplier)
    /\ current_phase = "FEASIBILITY_RESTORATION"
    /\ phase_log.calls[1] = "phase_2_strategy.reset"


(***************************************************************************)
(* The iterate returned by compute_acceptable_iterate                      *)
(***************************************************************************)
\* C30: compute_acceptable_iterate returns only the trial iterate that
\* is_acceptable accepted in the same loop iteration; a successful call has
\* called register_accepted_iterate exactly once, with that iterate, after the
\* acceptance test and after the update of the radius; a call that has not
\* returned has registered nothing, and neither the rejected branch nor the
\* catch of a NumericalError registers an iterate.
C30_RegisteredOncePerSuccessfulCall ==
    /\ [](outcome = "returned" =>
            /\ registered = <<trial_iterate.iteration>>
            /\ trial_iterate.iteration = iteration_id
            /\ direction.iteration = iteration_id
            /\ Len(tr_log) >= 2
            /\ tr_log[Len(tr_log) - 1] = "is_acceptable"
            /\ tr_log[Len(tr_log)] = "register_accepted_iterate"
            /\ registration_radius = radius)
    /\ [](outcome # "returned" => registered = <<>>)
    /\ [][registered' # registered =>
            \/ tr_pc = "idle" /\ registered' = <<>>
            \/ /\ tr_pc = "is_acceptable"
               /\ outcome' = "returned"
               /\ registered' = <<trial_iterate.iteration>>
               /\ tr_log' = tr_log \o <<"is_acceptable", "register_accepted_iterate">>
               /\ radius' = AcceptedRadius(radius, direction.norm, options)
               /\ registration_radius' = radius']_vars
    /\ [][(tr_log' # tr_log /\ tr_log' # <<>>
            /\ Last(tr_log') \in {"decrease_radius", "NumericalError"})
           => /\ registered' = registered
              /\ outcome' = outcome
              /\ outcome' # "returned"]_vars

\* a call has returned in its second iteration, after a first trial was
\* rejected or aborted, with an active trust region whose radius was increased
\* ahead of the registration
C30_Witness ==
    /\ outcome = "returned"
    /\ number_iterations = 2
    /\ registered = <<trial_iterate.iteration>>
    /\ RLess(trial_iterate.radius, registration_radius)

\* a trial was rejected and nothing is registered
C30_RejectedNotRegistered ==
    /\ outcome = "running"
    /\ tr_log # <<>>
    /\ Last(tr_log) = "decrease_radius"
    /\ registered = <<>>

====
